---- MODULE Spec2Model ----
(***************************************************************************)
(* Model of the request-execution engine of multi-llm:                     *)
(*   src/src/utils/retry.ts  getRetryConfig, sleep, executeWithRetry       *)
(*   src/src/llm.ts          LLM.chat                                      *)
(*   src/src/types.ts, src/src/providers, src/unnamed/part_007             *)
(*                           the providers' streamChat                     *)
(*                                                                         *)
(* Strings are modelled as sequences of tokens, so that template literals  *)
(* are concatenations (\o) and "contains" is a contiguous sub-sequence.    *)
(* An optional value (undefined or a value) is <<>> or <<value>>.          *)
(***************************************************************************)
EXTENDS Integers, Sequences, FiniteSets, TLC

VARIABLES
    providerName,   \* LLM.provider.constructor.name
    modelId,        \* LLM.modelId
    opPlan,         \* behaviour of the operation: outcome of its n-th invocation
    caller,         \* "none", "direct" (executeWithRetry called) or "chat" (LLM.chat called)
    options,        \* the ChatOptions handed to chat
    messages,       \* the ChatMessage[] built by chat
    config,         \* executeWithRetry: config
    context,        \* executeWithRetry: context (optional)
    attempt,        \* executeWithRetry: let attempt
    lastError,      \* executeWithRetry: let lastError (optional)
    pc,             \* position of the async function
    invocations,    \* number of times operation() has been called
    inFlight,       \* operation promises that have not settled yet
    timer,          \* pending setTimeout of sleep (optional delay)
    trace,          \* observable events, in order
    resolved,       \* value the returned promise resolved with (optional)
    rejected,       \* error the returned promise rejected with (optional)
    chatText,       \* LLM.chat: content
    variant,        \* which provider's streamChat the LLM's provider runs
    sink,           \* LLM.chat: streamCallback was supplied
    streamOpen,     \* response.data of the current attempt can still emit events
    fullContent,    \* streamChat: let fullContent
    settled,        \* the promise of the current streamChat call is settled
    parseCalls,     \* calls of ResponseParser.parseResponse in the current attempt
    resolveCalls,   \* calls of resolve in the current attempt
    deltas,         \* calls of streamCallback in this chat invocation, in order
    lastChunk,      \* the fragment of the last stream event (<<>>: it was not 'data')
    before,         \* what held when lastChunk arrived
    chunkCount,     \* fragments delivered in this chat invocation
    carry,          \* upstream: the line whose first part ended the last fragment
    sentTexts,      \* upstream: texts of the records sent before its terminal marker
    usageSent,      \* upstream: usage statistics were sent up to its terminal marker
    upstreamDone,   \* upstream: the terminal marker has been sent
    path,           \* provider.chat: the branch the current attempt took
    simContent,     \* simulateStreaming: content
    words,          \* simulateStreaming: const words
    wordIdx,        \* simulateStreaming: let i
    simDeltas,      \* simulateStreaming: the calls of streamCallback, in order
    simPc,          \* simulateStreaming: where the simulated streamChat stands
    text,           \* parseResponse: content
    parsed,         \* parseResponse: the ParsedResult returned (optional)
    cPc,            \* two concurrent chats: where each one stands
    cFull,          \* two concurrent chats: fullContent of each streamChat closure
    cSink,          \* two concurrent chats: what each streamCallback received
    cResult,        \* two concurrent chats: what each promise resolved with
    cCount,         \* two concurrent chats: fragments delivered to each
    cOpen,          \* two concurrent chats: response.data of each can still emit
    cOrder,         \* two concurrent chats: whose 'data' handler ran, in order
    provType,       \* createProvider: type
    apiKey,         \* createProvider: apiKey
    baseUrl,        \* createProvider: baseUrl (optional)
    created,        \* createProvider: what the call returned or threw (optional)
    pollPc,         \* pollForCompletion: where the async function stands
    pollAttempts,   \* pollForCompletion: let attempts
    pollCount,      \* pollForCompletion: axios.get calls made
    pollResult,     \* pollForCompletion: what it returned or threw (optional)
    mcpProcesses,   \* LLM.mcpProcesses
    spawned,        \* child processes spawned so far (they are numbered 1, 2, ...)
    killed,         \* ChildProcess.killed of each process
    exited,         \* each process: it has exited
    killCalls,      \* each process: calls of ChildProcess.kill()
    lastOp,         \* the last method called on the LLM instance
    disposeCalls,   \* calls of LLM.dispose so far
    received,       \* what each provider.chat call was handed: messages, options
    payloads        \* what each provider.chat call put into its request

retryVars == <<providerName, modelId, opPlan, caller, options, messages, config, context,
               attempt, lastError, pc, invocations, inFlight, timer, trace, resolved,
               rejected, chatText>>

streamVars == <<variant, sink, streamOpen, fullContent, settled, parseCalls, resolveCalls,
                deltas, lastChunk, before, chunkCount, carry, sentTexts, usageSent,
                upstreamDone, path>>

simVars == <<simContent, words, wordIdx, simDeltas, simPc>>

parseVars == <<text, parsed>>

concVars == <<cPc, cFull, cSink, cResult, cCount, cOpen, cOrder>>

factoryVars == <<provType, apiKey, baseUrl, created>>

pollVars == <<pollPc, pollAttempts, pollCount, pollResult>>

mcpVars == <<mcpProcesses, spawned, killed, exited, killCalls, lastOp, disposeCalls>>

frameVars == <<received, payloads>>

sideVars == <<pollVars, mcpVars, frameVars>>

auxVars == <<simVars, parseVars, concVars, factoryVars, sideVars>>

vars == <<retryVars, streamVars, auxVars>>

----------------------------------------------------------------------------
(* Bounds of the model *)

MaxRetries == 2

\* config.retries is any number; -1 stands for the negative ones.
RetryCounts == (-1)..MaxRetries
Intervals == {0, 50}
Backoffs == {1, 3}
ErrorMessages == {"E1", "E2"}
ProviderNames == {"OpenRouterProvider", "GroqProvider"}
ModelIds == {"m1"}
Contents == {<<"Hello">>, <<"Hi", " there">>}
SystemTexts == {<<>>, <<"be brief">>}
ContextLabels == {<<>>, <<"test-context">>}

\* The operation is invoked at most MaxRetries + 1 times; one more entry keeps
\* a faulty loop bound observable.
PlanLen == MaxRetries + 2

----------------------------------------------------------------------------
(* Optional values and JavaScript operators *)

None == <<>>
Some(x) == <<x>>

\* a ?? b
Nullish(o, d) == IF o = None THEN d ELSE o[1]

\* a || b on numbers: 0 is falsy
OrElseNum(o, d) == IF o = None \/ o[1] = 0 THEN d ELSE o[1]

\* truthiness of an optional string: undefined and '' are falsy
TruthyStr(o) == o # None /\ o[1] # <<>>

RECURSIVE Pow(_, _)
\* Math.pow(b, e) for integers e >= 0
Pow(b, e) == IF e <= 0 THEN 1 ELSE b * Pow(b, e - 1)

----------------------------------------------------------------------------
(* src/src/utils/retry.ts *)

DEFAULT_RETRY_CONFIG == [retries |-> 1, retryInterval |-> 1000, retryBackoff |-> 2]

getRetryConfig_Falsy(opts) ==
    [retries       |-> OrElseNum(opts.retries, DEFAULT_RETRY_CONFIG.retries),
     retryInterval |-> OrElseNum(opts.retryInterval, DEFAULT_RETRY_CONFIG.retryInterval),
     retryBackoff  |-> OrElseNum(opts.retryBackoff, DEFAULT_RETRY_CONFIG.retryBackoff)]

getRetryConfig_RetriesOr(opts) ==
    [retries       |-> OrElseNum(opts.retries, DEFAULT_RETRY_CONFIG.retries),
     retryInterval |-> Nullish(opts.retryInterval, DEFAULT_RETRY_CONFIG.retryInterval),
     retryBackoff  |-> Nullish(opts.retryBackoff, DEFAULT_RETRY_CONFIG.retryBackoff)]

getRetryConfig(opts) ==
    [retries       |-> Nullish(opts.retries, DEFAULT_RETRY_CONFIG.retries),
     retryInterval |-> Nullish(opts.retryInterval, DEFAULT_RETRY_CONFIG.retryInterval),
     retryBackoff  |-> Nullish(opts.retryBackoff, DEFAULT_RETRY_CONFIG.retryBackoff)]

MaxAttempts_NoInitial(cfg) == cfg.retries

MaxAttempts_OneExtra(cfg) == cfg.retries + 2

\* const maxAttempts = config.retries + 1
MaxAttempts(cfg) == cfg.retries + 1

IsLastAttempt_Strict(att, cfg) == att > MaxAttempts(cfg)

\* if (attempt >= maxAttempts)
IsLastAttempt(att, cfg) == att >= MaxAttempts(cfg)

BackoffDelay_OneTooMany(cfg, att) == cfg.retryInterval * Pow(cfg.retryBackoff, att)

\* const delay = config.retryInterval * Math.pow(config.retryBackoff, attempt - 1)
BackoffDelay(cfg, att) == cfg.retryInterval * Pow(cfg.retryBackoff, att - 1)

RetryErrorMessage_CountsAttempts(cfg, ctx, errMsg) ==
    <<"Failed after ", ToString(cfg.retries + 1), " retries">>
        \o (IF TruthyStr(ctx) THEN <<" (">> \o ctx[1] \o <<")">> ELSE <<>>)
        \o <<": ", errMsg>>

RetryErrorMessage_NoContext(cfg, ctx, errMsg) ==
    <<"Failed after ", ToString(cfg.retries), " retries">> \o <<": ", errMsg>>

\* `Failed after ${config.retries} retries${contextMsg}: ${lastError.message}`
RetryErrorMessage(cfg, ctx, errMsg) ==
    <<"Failed after ", ToString(cfg.retries), " retries">>
        \o (IF TruthyStr(ctx) THEN <<" (">> \o ctx[1] \o <<")">> ELSE <<>>)
        \o <<": ", errMsg>>

\* An Error object with a message; the value undefined when thrown unset.
ErrorOf(msg) == [defined |-> TRUE, message |-> msg]
UndefinedError == [defined |-> FALSE, message |-> <<>>]

\* What the n-th invocation of the operation does: "ok" or the message it throws.
OpOutcome(n) == IF n \in DOMAIN opPlan THEN opPlan[n] ELSE opPlan[PlanLen]

\* The value the n-th invocation resolves with.
OpValue(n) == [from |-> n]

Event(e, n) == [ev |-> e, n |-> n]

\* while (attempt < maxAttempts) { try { return await operation(); } ... }
\* throw lastError!;
WhileLoop(cfg, att, err, tr) ==
    IF att < MaxAttempts(cfg)
    THEN /\ pc' = "awaitOp"
         /\ invocations' = invocations + 1
         /\ inFlight' = inFlight + 1
         /\ trace' = Append(tr, Event("attempt", invocations + 1))
         /\ UNCHANGED rejected
    ELSE /\ pc' = "rejected"
         /\ rejected' = Some(IF err = None THEN UndefinedError ELSE ErrorOf(<<err[1]>>))
         /\ trace' = tr
         /\ UNCHANGED <<invocations, inFlight>>

\* executeWithRetry(operation, config, context?) called directly
executeWithRetry ==
    /\ pc = "idle"
    /\ \E r \in RetryCounts, i \in Intervals, b \in Backoffs,
          c \in {None} \cup {Some(l) : l \in ContextLabels} :
          /\ config' = [retries |-> r, retryInterval |-> i, retryBackoff |-> b]
          /\ context' = c
          /\ WhileLoop(config', 0, None, trace)
    /\ caller' = "direct"
    /\ attempt' = 0
    /\ lastError' = None
    /\ UNCHANGED <<providerName, modelId, opPlan, options, messages, timer, resolved>>
    /\ UNCHANGED <<chatText, streamVars>>
    /\ UNCHANGED auxVars

OperationResolves_NoReturn ==
    /\ pc = "awaitOp"
    /\ OpOutcome(invocations) = "ok"
    /\ WhileLoop(config, attempt, lastError, Append(trace, Event("succeeded", invocations)))
    /\ UNCHANGED <<providerName, modelId, opPlan, caller, options, messages, config,
                   context, attempt, lastError, timer, resolved>>
    /\ UNCHANGED <<chatText, streamVars>>
    /\ UNCHANGED auxVars

\* return await operation(): the operation resolved
OperationResolves ==
    /\ pc = "awaitOp"
    /\ OpOutcome(invocations) = "ok"
    /\ inFlight' = inFlight - 1
    /\ resolved' = Some(OpValue(invocations))
    /\ trace' = Append(trace, Event("succeeded", invocations))
    /\ pc' = "resolved"
    /\ UNCHANGED <<providerName, modelId, opPlan, caller, options, messages, config,
                   context, attempt, lastError, invocations, timer, rejected>>
    /\ UNCHANGED <<chatText, streamVars>>
    /\ UNCHANGED auxVars

OperationRejects_NoAwaitSleep ==
    /\ pc = "awaitOp"
    /\ OpOutcome(invocations) # "ok"
    /\ lastError' = Some(OpOutcome(invocations))
    /\ attempt' = attempt + 1
    /\ IF IsLastAttempt(attempt', config)
       THEN /\ rejected' = Some(ErrorOf(RetryErrorMessage(config, context, lastError'[1])))
            /\ pc' = "rejected"
            /\ inFlight' = inFlight - 1
            /\ trace' = Append(trace, Event("failed", invocations))
            /\ UNCHANGED <<timer, invocations>>
       ELSE /\ timer' = Some(BackoffDelay(config, attempt'))
            /\ pc' = "awaitOp"
            /\ invocations' = invocations + 1
            /\ inFlight' = inFlight
            /\ trace' = trace \o <<Event("failed", invocations),
                                   Event("sleep", timer'[1]),
                                   Event("attempt", invocations + 1)>>
            /\ UNCHANGED rejected
    /\ UNCHANGED <<providerName, modelId, opPlan, caller, options, messages, config,
                   context, resolved>>
    /\ UNCHANGED <<chatText, streamVars>>
    /\ UNCHANGED auxVars

\* catch (error) { lastError = error; attempt++; ... throw / await sleep(delay) }
OperationRejects ==
    /\ pc = "awaitOp"
    /\ OpOutcome(invocations) # "ok"
    /\ inFlight' = inFlight - 1
    /\ lastError' = Some(OpOutcome(invocations))
    /\ attempt' = attempt + 1
    /\ IF IsLastAttempt(attempt', config)
       THEN /\ rejected' = Some(ErrorOf(RetryErrorMessage(config, context, lastError'[1])))
            /\ pc' = "rejected"
            /\ trace' = Append(trace, Event("failed", invocations))
            /\ UNCHANGED timer
       ELSE /\ timer' = Some(BackoffDelay(config, attempt'))
            /\ pc' = "sleeping"
            /\ trace' = trace \o <<Event("failed", invocations), Event("sleep", timer'[1])>>
            /\ UNCHANGED rejected
    /\ UNCHANGED <<providerName, modelId, opPlan, caller, options, messages, config,
                   context, invocations, resolved>>
    /\ UNCHANGED <<chatText, streamVars>>
    /\ UNCHANGED auxVars

\* sleep(ms): the timer fires, the loop goes round
SleepElapses ==
    /\ pc = "sleeping"
    /\ timer # None
    /\ timer' = None
    /\ WhileLoop(config, attempt, lastError, Append(trace, Event("woke", timer[1])))
    /\ UNCHANGED <<providerName, modelId, opPlan, caller, options, messages, config,
                   context, attempt, lastError, resolved>>
    /\ UNCHANGED <<chatText, streamVars>>
    /\ UNCHANGED auxVars

----------------------------------------------------------------------------
(* src/src/llm.ts *)

\* const messages = [{role:'user', content}]; if (options.system) messages.unshift(...)
BuildMessages_Push(content, opts) ==
    <<[role |-> "user", content |-> content]>>
        \o (IF TruthyStr(opts.system) THEN <<[role |-> "system", content |-> opts.system[1]]>>
                                       ELSE <<>>)

BuildMessages(content, opts) ==
    (IF TruthyStr(opts.system) THEN <<[role |-> "system", content |-> opts.system[1]]>>
                               ELSE <<>>)
        \o <<[role |-> "user", content |-> content]>>

ChatContext_ModelOnly(name, model) == <<model>>

\* `${this.provider.constructor.name}:${this.modelId}`
ChatContext(name, model) == <<name, ":", model>>

ChatOptionsSet ==
    [retries       : {None} \cup {Some(r) : r \in RetryCounts},
     retryInterval : {None} \cup {Some(i) : i \in Intervals},
     retryBackoff  : {None} \cup {Some(b) : b \in Backoffs},
     system        : {None} \cup {Some(s) : s \in SystemTexts}]

\* LLM.chat(content, options)
chat ==
    /\ pc = "idle"
    /\ \E content \in Contents, opts \in ChatOptionsSet :
          /\ chatText' = content
          /\ options' = opts
          /\ messages' = BuildMessages(content, opts)
          /\ config' = getRetryConfig(opts)
          /\ context' = Some(ChatContext(providerName, modelId))
          /\ WhileLoop(config', 0, None, trace)
    /\ caller' = "chat"
    /\ attempt' = 0
    /\ lastError' = None
    /\ UNCHANGED <<providerName, modelId, opPlan, timer, resolved>>
    /\ UNCHANGED streamVars
    /\ UNCHANGED auxVars

----------------------------------------------------------------------------

\* No streamChat call has been made.
StreamIdle ==
    /\ sink = FALSE
    /\ streamOpen = FALSE
    /\ fullContent = <<>>
    /\ settled = FALSE
    /\ parseCalls = 0
    /\ resolveCalls = 0
    /\ deltas = <<>>
    /\ lastChunk = <<>>
    /\ before = [deltas |-> 0, fullContent |-> <<>>, settled |-> FALSE, pc |-> "idle"]
    /\ chunkCount = 0
    /\ carry = None
    /\ sentTexts = <<>>
    /\ usageSent = FALSE
    /\ upstreamDone = FALSE
    /\ path = "none"

\* No simulated streamChat call has been made.
SimIdle ==
    /\ simContent = <<>>
    /\ words = <<>>
    /\ wordIdx = 0
    /\ simDeltas = <<>>
    /\ simPc = "idle"

\* parseResponse has not been called.
ParseIdle ==
    /\ text = <<>>
    /\ parsed = <<>>

\* No concurrent chats are in flight.
ConcIdle ==
    /\ cPc = [k \in {1, 2} |-> "idle"]
    /\ cFull = [k \in {1, 2} |-> <<>>]
    /\ cSink = [k \in {1, 2} |-> <<>>]
    /\ cResult = [k \in {1, 2} |-> <<>>]
    /\ cCount = [k \in {1, 2} |-> 0]
    /\ cOpen = [k \in {1, 2} |-> FALSE]
    /\ cOrder = <<>>

\* createProvider has not been called.
FactoryIdle ==
    /\ provType = "openai"
    /\ apiKey = <<>>
    /\ baseUrl = <<>>
    /\ created = <<>>

MaxProcs == 3
MaxDisposes == 3

\* pollForCompletion has not been called.
PollIdle ==
    /\ pollPc = "idle"
    /\ pollAttempts = 0
    /\ pollCount = 0
    /\ pollResult = <<>>

\* private mcpProcesses: ChildProcess[] = []: no addMCP or dispose call yet.
McpIdle ==
    /\ mcpProcesses = <<>>
    /\ spawned = 0
    /\ killed = [p \in 1..MaxProcs |-> FALSE]
    /\ exited = [p \in 1..MaxProcs |-> FALSE]
    /\ killCalls = [p \in 1..MaxProcs |-> 0]
    /\ lastOp = "new"
    /\ disposeCalls = 0

\* No provider.chat call has been made.
FrameIdle ==
    /\ received = <<>>
    /\ payloads = <<>>

SideIdle == PollIdle /\ McpIdle /\ FrameIdle

Init ==
    /\ providerName \in ProviderNames
    /\ modelId \in ModelIds
    /\ opPlan \in [1..PlanLen -> {"ok"} \cup ErrorMessages]
    /\ caller = "none"
    /\ options = [retries |-> None, retryInterval |-> None, retryBackoff |-> None,
                  system |-> None]
    /\ messages = <<>>
    /\ config = DEFAULT_RETRY_CONFIG
    /\ context = None
    /\ attempt = 0
    /\ lastError = None
    /\ pc = "idle"
    /\ invocations = 0
    /\ inFlight = 0
    /\ timer = None
    /\ trace = <<>>
    /\ resolved = None
    /\ rejected = None
    /\ chatText = <<>>
    /\ variant = "openai"
    /\ StreamIdle
    /\ SimIdle
    /\ ParseIdle
    /\ ConcIdle
    /\ FactoryIdle
    /\ SideIdle

Next ==
    \/ executeWithRetry
    \/ chat
    \/ OperationResolves
    \/ OperationRejects
    \/ SleepElapses

Spec == Init /\ [][Next]_vars

----------------------------------------------------------------------------
(* Streaming: the providers' streamChat.

   A response stream is a sequence of network fragments ('data' events).  A
   fragment is the sequence of its lines, chunk.toString().split('\n'), without
   the blank lines (no handler does anything with a blank line).  A line is

     kind "record"    a complete non-terminal record of the provider's protocol
     kind "stop"      a complete terminal record (message_stop, message-end,
                      done: true)
     kind "sentinel"  the line  data: [DONE]
     kind "garbage"   a complete line whose payload is not JSON
     kind "head"      the first part of a record the network cut in two
     kind "tail"      the rest of that record, first line of the next fragment

   text is the text the record carries (<<>>: none) and usage tells whether it
   carries usage statistics. *)

MaxChunks == 3

ChunkLens == {1, 2}
Variants == {"openai", "anthropic", "cohere", "ollama"}
StreamRetryCounts == {0, 1}

Rec(t, u) == [kind |-> "record", text |-> t, usage |-> u]
Stop(t, u) == [kind |-> "stop", text |-> t, usage |-> u]
Sentinel == [kind |-> "sentinel", text |-> <<>>, usage |-> FALSE]
Garbage == [kind |-> "garbage", text |-> <<>>, usage |-> FALSE]
HeadOf(l) == [l EXCEPT !.kind = "head"]
TailOf(l) == [l EXCEPT !.kind = "tail"]

\* The complete lines an upstream of each protocol sends (plus a corrupt one).
WholeLines(v) ==
    {Rec(<<"a">>, FALSE), Rec(<<"b">>, FALSE), Garbage} \cup
    CASE v = "openai"    -> {Rec(<<>>, TRUE), Sentinel}
      [] v = "anthropic" -> {Rec(<<>>, TRUE), Stop(<<>>, FALSE)}
      [] v = "cohere"    -> {Stop(<<>>, TRUE), Sentinel}
      [] v = "ollama"    -> {Stop(<<>>, FALSE), Stop(<<"b">>, TRUE)}
      [] v = "google"    -> {Stop(<<>>, FALSE), Stop(<<"b">>, TRUE)}

\* The records the network may cut in two.
SplitLines == {Rec(<<"a">>, FALSE)}

\* The fragments that can arrive when cr is the record cut by the last fragment:
\* a cut record's rest comes first, and only the last line can be cut.
Chunks(v, cr) ==
    LET first == IF cr = None THEN WholeLines(v) ELSE {TailOf(cr[1])}
        heads == {HeadOf(l) : l \in SplitLines}
    IN  {c \in UNION {[1..n -> WholeLines(v) \cup first \cup heads] : n \in ChunkLens} :
            /\ c[1] \in first \cup (IF cr = None /\ Len(c) = 1 THEN heads ELSE {})
            /\ \A k \in 2..Len(c) :
                  c[k] \in WholeLines(v) \cup (IF k = Len(c) THEN heads ELSE {})}

\* line.startsWith('data: ')
StartsWithData(line) == line.kind \in {"record", "stop", "sentinel", "garbage", "head"}

\* JSON.parse(data) returns
JsonParses(line) == line.kind \in {"record", "stop"}

\* usage: { inputTokens: x || 0, outputTokens: y || 0, totalTokens: x + y }
UpstreamUsage == [inputTokens |-> 3, outputTokens |-> 5, totalTokens |-> 8]
NoUsage == [inputTokens |-> 0, outputTokens |-> 0, totalTokens |-> 0]
UsageOrZero(line) == IF line.usage THEN UpstreamUsage ELSE NoUsage

\* The concatenation of a sequence of texts.
RECURSIVE Flatten(_)
Flatten(ts) == IF ts = <<>> THEN <<>> ELSE ts[1] \o Flatten(SubSeq(ts, 2, Len(ts)))

\* The state of one run of the 'data' callback: fullContent, the streamCallback
\* calls and resolve calls made so far, and whether it has returned.
HandlerStart(fc) ==
    [fullContent |-> fc, calls |-> <<>>, results |-> <<>>, parses |-> 0, returned |-> FALSE]

Deliver_NoAccumulate(st, t) ==
    [st EXCEPT !.calls = Append(@, t)]

\* fullContent += content; streamCallback(content);
Deliver(st, t) ==
    [st EXCEPT !.fullContent = @ \o t, !.calls = Append(@, t)]

\* ResponseParser.parseResponse(fullContent); resolve({...}); return;
Finish(st, usage) ==
    [st EXCEPT !.parses = @ + 1,
               !.results = Append(@, [text |-> st.fullContent, usage |-> usage]),
               !.returned = TRUE]

\* The body of the for loop, for one line.
openaiLine(line, st) ==
    IF ~StartsWithData(line) THEN st
    ELSE IF line.kind = "sentinel" THEN Finish(st, None)
    ELSE IF JsonParses(line) /\ line.text # <<>> THEN Deliver(st, line.text)
    ELSE st

anthropicLine(line, st) ==
    IF ~StartsWithData(line) \/ ~JsonParses(line) THEN st
    ELSE IF line.kind = "record" /\ line.text # <<>> THEN Deliver(st, line.text)
    ELSE IF line.kind = "stop" THEN Finish(st, None)
    ELSE st

cohereLine(line, st) ==
    IF ~StartsWithData(line) THEN st
    ELSE IF line.kind = "sentinel" THEN Finish(st, None)
    ELSE IF ~JsonParses(line) THEN st
    ELSE IF line.kind = "record"
         THEN (IF line.text # <<>> THEN Deliver(st, line.text) ELSE st)
    ELSE IF line.kind = "stop" THEN Finish(st, Some(UsageOrZero(line)))
    ELSE st

ollamaLine_FinishFirst(line, st) ==
    IF ~JsonParses(line) THEN st
    ELSE IF line.kind = "stop" THEN Finish(st, Some(UsageOrZero(line)))
    ELSE IF line.text # <<>> THEN Deliver(st, line.text)
    ELSE st

ollamaLine(line, st) ==
    IF ~JsonParses(line) THEN st
    ELSE LET st1 == IF line.text # <<>> THEN Deliver(st, line.text) ELSE st
         IN  IF line.kind = "stop" THEN Finish(st1, Some(UsageOrZero(line))) ELSE st1

\* GoogleProvider.streamChat: data lines only; text first, then finishReason
googleLine(line, st) ==
    IF ~StartsWithData(line) \/ ~JsonParses(line) THEN st
    ELSE LET st1 == IF line.text # <<>> THEN Deliver(st, line.text) ELSE st
         IN  IF line.kind = "stop" THEN Finish(st1, Some(UsageOrZero(line))) ELSE st1

HandleLine_Throws(v, line, st) ==
    IF line.kind \in {"garbage", "head", "tail"} THEN [st EXCEPT !.returned = TRUE]
    ELSE CASE v = "openai"    -> openaiLine(line, st)
           [] v = "anthropic" -> anthropicLine(line, st)
           [] v = "cohere"    -> cohereLine(line, st)
           [] v = "ollama"    -> ollamaLine(line, st)
           [] v = "google"    -> googleLine(line, st)

HandleLine(v, line, st) ==
    CASE v = "openai"    -> openaiLine(line, st)
      [] v = "anthropic" -> anthropicLine(line, st)
      [] v = "cohere"    -> cohereLine(line, st)
      [] v = "ollama"    -> ollamaLine(line, st)
      [] v = "google"    -> googleLine(line, st)

\* for (const line of lines) { ... }, left by the return after resolve.
RECURSIVE ForLines(_, _, _, _)
ForLines(v, lines, k, st) ==
    IF k > Len(lines) \/ st.returned THEN st
    ELSE ForLines(v, lines, k + 1, HandleLine(v, lines[k], st))

OnData_Coalesced(v, chunk, fc) ==
    LET h == ForLines(v, chunk, 1, HandlerStart(fc))
    IN  [h EXCEPT !.calls = IF @ = <<>> THEN <<>> ELSE <<Flatten(@)>>]

\* response.data.on('data', (chunk) => { ... })
OnData(v, chunk, fc) == ForLines(v, chunk, 1, HandlerStart(fc))

\* What the upstream has sent so far: the texts of its records, whether usage
\* statistics came with them, and whether its terminal marker went out.  A cut
\* record is sent once its rest is.
UpLine(line, u) ==
    IF u.done THEN u
    ELSE CASE line.kind \in {"record", "tail"} ->
                [u EXCEPT !.sent = IF line.text # <<>> THEN Append(@, line.text) ELSE @,
                          !.usage = @ \/ line.usage]
           [] line.kind = "stop" ->
                [u EXCEPT !.sent = IF line.text # <<>> THEN Append(@, line.text) ELSE @,
                          !.usage = @ \/ line.usage,
                          !.done = TRUE]
           [] line.kind = "sentinel" -> [u EXCEPT !.done = TRUE]
           [] OTHER -> u

RECURSIVE UpLines(_, _, _)
UpLines(lines, k, u) ==
    IF k > Len(lines) THEN u ELSE UpLines(lines, k + 1, UpLine(lines[k], u))

\* new Promise((resolve, reject) => { let fullContent = ''; axios.post(...) })
providerChat_Always(hasSink) == "stream"

\* provider.chat: if (streamCallback) return this.streamChat(payload, streamCallback)
\* else await axios.post(...)
providerChat(hasSink) == IF hasSink THEN "stream" ELSE "request"

AttemptStarts_KeepsBuffer(n, hasSink) ==
    /\ path' = providerChat(hasSink)
    /\ streamOpen' = (path' = "stream")
    /\ fullContent' = fullContent
    /\ settled' = FALSE
    /\ parseCalls' = 0
    /\ resolveCalls' = 0
    /\ lastChunk' = <<>>
    /\ before' = [deltas |-> n, fullContent |-> fullContent, settled |-> FALSE,
                  pc |-> "awaitOp"]
    /\ carry' = None
    /\ sentTexts' = <<>>
    /\ usageSent' = FALSE
    /\ upstreamDone' = FALSE

AttemptStarts(n, hasSink) ==
    /\ path' = providerChat(hasSink)
    /\ streamOpen' = (path' = "stream")
    /\ fullContent' = <<>>
    /\ settled' = FALSE
    /\ parseCalls' = 0
    /\ resolveCalls' = 0
    /\ lastChunk' = <<>>
    /\ before' = [deltas |-> n, fullContent |-> <<>>, settled |-> FALSE,
                  pc |-> "awaitOp"]
    /\ carry' = None
    /\ sentTexts' = <<>>
    /\ usageSent' = FALSE
    /\ upstreamDone' = FALSE

StreamContents == {<<"Hello">>}

StreamOptions(r) ==
    [retries |-> Some(r), retryInterval |-> Some(50), retryBackoff |-> None,
     system |-> None]

\* LLM.chat(content, options, streamCallback)
chatStream ==
    /\ pc = "idle"
    /\ \E content \in StreamContents, r \in StreamRetryCounts :
          /\ chatText' = content
          /\ options' = StreamOptions(r)
          /\ messages' = BuildMessages(content, options')
          /\ config' = getRetryConfig(options')
          /\ context' = Some(ChatContext(providerName, modelId))
          /\ WhileLoop(config', 0, None, trace)
    /\ caller' = "chat"
    /\ attempt' = 0
    /\ lastError' = None
    /\ \E cb \in BOOLEAN :
          /\ sink' = cb
          /\ AttemptStarts(0, cb)
    /\ deltas' = <<>>
    /\ chunkCount' = 0
    /\ UNCHANGED <<providerName, modelId, opPlan, timer, resolved, variant>>
    /\ UNCHANGED auxVars

SinkCalls_FirstAttemptOnly(calls, att, wasSettled) ==
    IF att > 1 THEN <<>>
    ELSE [k \in 1..Len(calls) |-> [att |-> att, text |-> calls[k], late |-> wasSettled]]

\* The streamCallback calls of one run of the 'data' callback, as the caller
\* sees them: which attempt made them and whether the promise was settled.
SinkCalls(calls, att, wasSettled) ==
    [k \in 1..Len(calls) |-> [att |-> att, text |-> calls[k], late |-> wasSettled]]

\* A fragment arrives: the whole 'data' callback, then (first resolve only)
\* `return await operation()` in executeWithRetry.
DataChunk ==
    /\ streamOpen
    /\ chunkCount < MaxChunks
    /\ \E c \in Chunks(variant, carry) :
          LET h == OnData(variant, c, fullContent)
              u == UpLines(c, 1, [sent |-> sentTexts, usage |-> usageSent,
                                  done |-> upstreamDone])
          IN  /\ fullContent' = h.fullContent
              /\ deltas' = deltas \o SinkCalls(h.calls, invocations, settled)
              /\ parseCalls' = parseCalls + h.parses
              /\ resolveCalls' = resolveCalls + Len(h.results)
              /\ settled' = (settled \/ h.results # <<>>)
              /\ IF ~settled /\ h.results # <<>>
                 THEN /\ pc' = "resolved"
                      /\ resolved' = Some(h.results[1])
                      /\ inFlight' = inFlight - 1
                      /\ trace' = Append(trace, Event("succeeded", invocations))
                 ELSE UNCHANGED <<pc, resolved, inFlight, trace>>
              /\ lastChunk' = c
              /\ before' = [deltas |-> Len(deltas), fullContent |-> fullContent,
                            settled |-> settled, pc |-> pc]
              /\ carry' = IF c[Len(c)].kind = "head" THEN Some(c[Len(c)]) ELSE None
              /\ sentTexts' = u.sent
              /\ usageSent' = u.usage
              /\ upstreamDone' = u.done
    /\ chunkCount' = chunkCount + 1
    /\ UNCHANGED <<providerName, modelId, opPlan, caller, options, messages, config,
                   context, attempt, lastError, invocations, timer, rejected, chatText,
                   variant, sink, streamOpen, path>>
    /\ UNCHANGED auxVars

\* response.data.on('error', reject) and .catch(reject); when the promise was
\* pending, the catch block of executeWithRetry follows.
StreamError ==
    /\ streamOpen
    /\ streamOpen' = FALSE
    /\ settled' = TRUE
    /\ lastChunk' = <<>>
    /\ IF settled
       THEN UNCHANGED <<inFlight, lastError, attempt, rejected, pc, trace, timer>>
       ELSE \E e \in {"E1"} :
               /\ inFlight' = inFlight - 1
               /\ lastError' = Some(e)
               /\ attempt' = attempt + 1
               /\ IF IsLastAttempt(attempt', config)
                  THEN /\ rejected' =
                             Some(ErrorOf(RetryErrorMessage(config, context, e)))
                       /\ pc' = "rejected"
                       /\ trace' = Append(trace, Event("failed", invocations))
                       /\ UNCHANGED timer
                  ELSE /\ timer' = Some(BackoffDelay(config, attempt'))
                       /\ pc' = "sleeping"
                       /\ trace' = trace \o <<Event("failed", invocations),
                                              Event("sleep", timer'[1])>>
                       /\ UNCHANGED rejected
    /\ UNCHANGED <<providerName, modelId, opPlan, caller, options, messages, config,
                   context, invocations, resolved, chatText>>
    /\ UNCHANGED <<variant, sink, fullContent, parseCalls, resolveCalls, deltas, before,
                   chunkCount, carry, sentTexts, usageSent, upstreamDone, path>>
    /\ UNCHANGED auxVars

\* The upstream closes the connection: no handler is registered for 'end'.
StreamEnd ==
    /\ streamOpen
    /\ streamOpen' = FALSE
    /\ lastChunk' = <<>>
    /\ UNCHANGED retryVars
    /\ UNCHANGED <<variant, sink, fullContent, settled, parseCalls, resolveCalls, deltas,
                   before, chunkCount, carry, sentTexts, usageSent, upstreamDone, path>>
    /\ UNCHANGED auxVars

\* sleep(ms) is over: the loop goes round and the operation calls streamChat again
\* with the same streamCallback.
StreamSleepElapses ==
    /\ pc = "sleeping"
    /\ timer # None
    /\ timer' = None
    /\ WhileLoop(config, attempt, lastError, Append(trace, Event("woke", timer[1])))
    /\ AttemptStarts(Len(deltas), sink)
    /\ UNCHANGED <<providerName, modelId, opPlan, caller, options, messages, config,
                   context, attempt, lastError, resolved, chatText>>
    /\ UNCHANGED <<variant, sink, deltas, chunkCount>>
    /\ UNCHANGED auxVars

\* The bodies an upstream answers a non-streaming request with: the texts it
\* would have streamed, sent as one message.
ResponseTexts == {<<<<"a">>>>, <<<<"a">>, <<"b">>>>}

\* await axios.post(...) returns: content = response.data.choices[0].message.content,
\* usage built with || 0; the operation's promise resolves and executeWithRetry
\* returns the result.
ResponseArrives ==
    /\ pc = "awaitOp"
    /\ path = "request"
    /\ \E ts \in ResponseTexts, u \in BOOLEAN :
          /\ sentTexts' = ts
          /\ usageSent' = u
          /\ fullContent' = Flatten(ts)
          /\ resolved' = Some([text |-> fullContent',
                               usage |-> Some(IF u THEN UpstreamUsage ELSE NoUsage)])
    /\ upstreamDone' = TRUE
    /\ parseCalls' = parseCalls + 1
    /\ resolveCalls' = resolveCalls + 1
    /\ settled' = TRUE
    /\ pc' = "resolved"
    /\ inFlight' = inFlight - 1
    /\ trace' = Append(trace, Event("succeeded", invocations))
    /\ lastChunk' = <<>>
    /\ UNCHANGED <<providerName, modelId, opPlan, caller, options, messages, config,
                   context, attempt, lastError, invocations, timer, rejected, chatText>>
    /\ UNCHANGED <<variant, sink, streamOpen, deltas, before, chunkCount, carry, path>>
    /\ UNCHANGED auxVars

\* await axios.post(...) throws: provider.chat rethrows "<Provider> chat failed: ..."
\* and the catch block of executeWithRetry follows.
RequestFails ==
    /\ pc = "awaitOp"
    /\ path = "request"
    /\ settled' = TRUE
    /\ lastChunk' = <<>>
    /\ \E e \in {"chat failed: E1"} :
          /\ inFlight' = inFlight - 1
          /\ lastError' = Some(e)
          /\ attempt' = attempt + 1
          /\ IF IsLastAttempt(attempt', config)
             THEN /\ rejected' = Some(ErrorOf(RetryErrorMessage(config, context, e)))
                  /\ pc' = "rejected"
                  /\ trace' = Append(trace, Event("failed", invocations))
                  /\ UNCHANGED timer
             ELSE /\ timer' = Some(BackoffDelay(config, attempt'))
                  /\ pc' = "sleeping"
                  /\ trace' = trace \o <<Event("failed", invocations),
                                         Event("sleep", timer'[1])>>
                  /\ UNCHANGED rejected
    /\ UNCHANGED <<providerName, modelId, opPlan, caller, options, messages, config,
                   context, invocations, resolved, chatText>>
    /\ UNCHANGED <<variant, sink, streamOpen, fullContent, parseCalls, resolveCalls,
                   deltas, before, chunkCount, carry, sentTexts, usageSent,
                   upstreamDone, path>>
    /\ UNCHANGED auxVars

StreamInit ==
    /\ providerName = "OpenRouterProvider"
    /\ modelId = "m1"
    /\ opPlan = [n \in 1..PlanLen |-> "ok"]
    /\ caller = "none"
    /\ options = [retries |-> None, retryInterval |-> None, retryBackoff |-> None,
                  system |-> None]
    /\ messages = <<>>
    /\ config = DEFAULT_RETRY_CONFIG
    /\ context = None
    /\ attempt = 0
    /\ lastError = None
    /\ pc = "idle"
    /\ invocations = 0
    /\ inFlight = 0
    /\ timer = None
    /\ trace = <<>>
    /\ resolved = None
    /\ rejected = None
    /\ chatText = <<>>
    /\ variant \in Variants
    /\ StreamIdle
    /\ SimIdle
    /\ ParseIdle
    /\ ConcIdle
    /\ FactoryIdle
    /\ SideIdle

StreamNext ==
    \/ chatStream
    \/ ResponseArrives
    \/ RequestFails
    \/ DataChunk
    \/ StreamError
    \/ StreamEnd
    \/ StreamSleepElapses

StreamSpec == StreamInit /\ [][StreamNext]_vars

\* The variants whose terminal marker is a field of a record: done (Ollama's
\* NDJSON) and finishReason (Google).
InRecordVariants == {"ollama", "google"}

DoneFlagInit ==
    /\ providerName = "OpenRouterProvider"
    /\ modelId = "m1"
    /\ opPlan = [n \in 1..PlanLen |-> "ok"]
    /\ caller = "none"
    /\ options = [retries |-> None, retryInterval |-> None, retryBackoff |-> None,
                  system |-> None]
    /\ messages = <<>>
    /\ config = DEFAULT_RETRY_CONFIG
    /\ context = None
    /\ attempt = 0
    /\ lastError = None
    /\ pc = "idle"
    /\ invocations = 0
    /\ inFlight = 0
    /\ timer = None
    /\ trace = <<>>
    /\ resolved = None
    /\ rejected = None
    /\ chatText = <<>>
    /\ variant \in InRecordVariants
    /\ StreamIdle
    /\ SimIdle
    /\ ParseIdle
    /\ ConcIdle
    /\ FactoryIdle
    /\ SideIdle

DoneFlagSpec == DoneFlagInit /\ [][StreamNext]_vars

----------------------------------------------------------------------------
(* Simulated streaming: HuggingFaceProvider / ReplicateProvider streamChat and
   simulateStreaming.  A text is a sequence of characters. *)

MaxSimLen == 4

SimChars == {"x", "y", " "}
SimContents == UNION {[1..n -> SimChars] : n \in 0..MaxSimLen}

\* content.split(' ')
RECURSIVE SplitSpace(_)
SplitSpace(s) ==
    IF \A k \in 1..Len(s) : s[k] # " " THEN <<s>>
    ELSE LET k == CHOOSE k \in 1..Len(s) :
                      s[k] = " " /\ \A j \in 1..(k - 1) : s[j] # " "
         IN  <<SubSeq(s, 1, k - 1)>> \o SplitSpace(SubSeq(s, k + 1, Len(s)))

SimWord_NoSpace(ws, i) == ws[i + 1]

\* const word = words[i] + (i < words.length - 1 ? ' ' : '')
SimWord(ws, i) == ws[i + 1] \o (IF i < Len(ws) - 1 THEN <<" ">> ELSE <<>>)

\* The response arrives: simulateStreaming(content, streamCallback) runs to its
\* first await.
simulateStreaming ==
    /\ simPc = "idle"
    /\ \E content \in SimContents :
          /\ simContent' = content
          /\ words' = SplitSpace(content)
    /\ wordIdx' = 0
    /\ IF 0 < Len(words')
       THEN /\ simDeltas' = <<SimWord(words', 0)>>
            /\ simPc' = "waiting"
       ELSE /\ simDeltas' = <<>>
            /\ simPc' = "resolved"
    /\ UNCHANGED <<retryVars, streamVars, parseVars, concVars, factoryVars, sideVars>>

\* setTimeout(resolve, 50) fires: i++, then the next word, or the loop ends and
\* streamChat resolves.
SimTimerFires ==
    /\ simPc = "waiting"
    /\ wordIdx' = wordIdx + 1
    /\ IF wordIdx' < Len(words)
       THEN /\ simDeltas' = Append(simDeltas, SimWord(words, wordIdx'))
            /\ simPc' = "waiting"
       ELSE /\ simDeltas' = simDeltas
            /\ simPc' = "resolved"
    /\ UNCHANGED <<simContent, words>>
    /\ UNCHANGED <<retryVars, streamVars, parseVars, concVars, factoryVars, sideVars>>

SimInit ==
    /\ providerName = "HuggingFaceProvider"
    /\ modelId = "m1"
    /\ opPlan = [n \in 1..PlanLen |-> "ok"]
    /\ caller = "none"
    /\ options = [retries |-> None, retryInterval |-> None, retryBackoff |-> None,
                  system |-> None]
    /\ messages = <<>>
    /\ config = DEFAULT_RETRY_CONFIG
    /\ context = None
    /\ attempt = 0
    /\ lastError = None
    /\ pc = "idle"
    /\ invocations = 0
    /\ inFlight = 0
    /\ timer = None
    /\ trace = <<>>
    /\ resolved = None
    /\ rejected = None
    /\ chatText = <<>>
    /\ variant = "simulated"
    /\ StreamIdle
    /\ SimIdle
    /\ ParseIdle
    /\ ConcIdle
    /\ FactoryIdle
    /\ SideIdle

SimNext ==
    \/ simulateStreaming
    \/ SimTimerFires

SimSpec == SimInit /\ [][SimNext]_vars

----------------------------------------------------------------------------
(* src/src/utils/parser.ts: ResponseParser.parseResponse.

   A text is a sequence of tokens: "FENCE" is the fence marker (three backticks), "x" a word
   character (\w), " " and "\n" white space, and each thinking tag is one
   token. *)

MaxFenceLen == 8
MaxThinkLen == 5
MaxMixedLen == 6

FenceTokens == {"FENCE", "x", "\n", " "}
ThinkTokens == {"<thinking>", "</thinking>", "<thought>", "</thought>",
                "[thinking]", "[/thinking]", "x", " "}
MixedTokens == {"FENCE", "\n", "<thinking>", "</thinking>", "x"}

TextsOver(tokens, n) == UNION {[1..k -> tokens] : k \in 0..n}

ParseTexts ==
    TextsOver(FenceTokens, MaxFenceLen) \cup TextsOver(ThinkTokens, MaxThinkLen)
        \cup TextsOver(MixedTokens, MaxMixedLen)

\* \w
IsWordChar(t) == t = "x"

\* \s
IsSpace(t) == t \in {" ", "\n"}

\* String.prototype.trim
RECURSIVE Trim(_)
Trim(s) ==
    IF s = <<>> THEN s
    ELSE IF IsSpace(s[1]) THEN Trim(SubSeq(s, 2, Len(s)))
    ELSE IF IsSpace(s[Len(s)]) THEN Trim(SubSeq(s, 1, Len(s) - 1))
    ELSE s

\* The smallest and the largest element of a non-empty set of numbers.
Least(S) == CHOOSE a \in S : \A b \in S : a <= b
Largest(S) == CHOOSE a \in S : \A b \in S : a >= b

FenceMatchAt_Greedy(s, p) ==
    IF p > Len(s) \/ s[p] # "FENCE" THEN None
    ELSE LET runs == {j \in 0..(Len(s) - p) :
                         \A i \in 1..j : IsWordChar(s[p + i])}
             ok == {j \in runs :
                       /\ p + j + 1 <= Len(s)
                       /\ s[p + j + 1] = "\n"
                       /\ \E e \in (p + j + 2)..Len(s) : s[e] = "FENCE"}
         IN  IF ok = {} THEN None
             ELSE LET j == Largest(ok)
                      e == Largest({e \in (p + j + 2)..Len(s) : s[e] = "FENCE"})
                  IN  Some([start |-> p,
                            tag |-> SubSeq(s, p + 1, p + j),
                            inner |-> SubSeq(s, p + j + 2, e - 1),
                            end |-> e])

FenceMatchAt_ToEnd(s, p) ==
    IF p > Len(s) \/ s[p] # "FENCE" THEN None
    ELSE LET runs == {j \in 0..(Len(s) - p) :
                         \A i \in 1..j : IsWordChar(s[p + i])}
             ok == {j \in runs :
                       /\ p + j + 1 <= Len(s)
                       /\ s[p + j + 1] = "\n"}
         IN  IF ok = {} THEN None
             ELSE LET j == Largest(ok)
                      es == {e \in (p + j + 2)..Len(s) : s[e] = "FENCE"}
                      e == IF es = {} THEN Len(s) + 1 ELSE Least(es)
                  IN  Some([start |-> p,
                            tag |-> SubSeq(s, p + 1, p + j),
                            inner |-> SubSeq(s, p + j + 2, e - 1),
                            end |-> IF es = {} THEN Len(s) ELSE e])

\* codeBlockRegex, FENCE(\w*)\n([\s\S]*?)FENCE, tried at position p: the marker, the longest run of
\* word characters that can be followed by "\n" (backtracking tries the shorter
\* ones), then the shortest text up to a marker.
FenceMatchAt(s, p) ==
    IF p > Len(s) \/ s[p] # "FENCE" THEN None
    ELSE LET runs == {j \in 0..(Len(s) - p) :
                         \A i \in 1..j : IsWordChar(s[p + i])}
             ok == {j \in runs :
                       /\ p + j + 1 <= Len(s)
                       /\ s[p + j + 1] = "\n"
                       /\ \E e \in (p + j + 2)..Len(s) : s[e] = "FENCE"}
         IN  IF ok = {} THEN None
             ELSE LET j == Largest(ok)
                      e == Least({e \in (p + j + 2)..Len(s) : s[e] = "FENCE"})
                  IN  Some([start |-> p,
                            tag |-> SubSeq(s, p + 1, p + j),
                            inner |-> SubSeq(s, p + j + 2, e - 1),
                            end |-> e])

\* codeBlockRegex.exec(content) with lastIndex = from: the leftmost match.
FenceExec(s, from) ==
    LET ps == {p \in from..Len(s) : FenceMatchAt(s, p) # None}
    IN  IF ps = {} THEN None ELSE FenceMatchAt(s, Least(ps))

\* while ((match = codeBlockRegex.exec(content)) !== null) codeBlocks.push(...)
RECURSIVE CodeBlocksFrom(_, _)
CodeBlocksFrom(s, from) ==
    LET m == FenceExec(s, from)
    IN  IF m = None THEN <<>>
        ELSE <<[language |-> IF m[1].tag = <<>> THEN <<"text">> ELSE m[1].tag,
                code |-> Trim(m[1].inner)]>>
             \o CodeBlocksFrom(s, m[1].end + 1)

\* cleanContent.replace(/FENCE[\w]*\n[\s\S]*?FENCE/g, '')
RECURSIVE RemoveFencesFrom(_, _)
RemoveFencesFrom(s, from) ==
    LET m == FenceExec(s, from)
    IN  IF m = None THEN SubSeq(s, from, Len(s))
        ELSE SubSeq(s, from, m[1].start - 1) \o RemoveFencesFrom(s, m[1].end + 1)

thinkingPatterns_ThoughtFirst ==
    <<[open |-> "<thought>", close |-> "</thought>"],
      [open |-> "<thinking>", close |-> "</thinking>"],
      [open |-> "[thinking]", close |-> "[/thinking]"]>>

\* const thinkingPatterns = [...]
thinkingPatterns ==
    <<[open |-> "<thinking>", close |-> "</thinking>"],
      [open |-> "<thought>", close |-> "</thought>"],
      [open |-> "[thinking]", close |-> "[/thinking]"]>>

\* content.match(pattern): the leftmost opening tag that has a closing tag
\* after it, up to the nearest such closing tag.
ThinkingMatch(s, pat) ==
    LET ps == {p \in 1..Len(s) :
                  s[p] = pat.open /\ \E q \in (p + 1)..Len(s) : s[q] = pat.close}
    IN  IF ps = {} THEN None
        ELSE LET p == Least(ps)
                 q == Least({q \in (p + 1)..Len(s) : s[q] = pat.close})
             IN  Some([start |-> p, inner |-> SubSeq(s, p + 1, q - 1), end |-> q])

\* for (const pattern of thinkingPatterns) { ... thinking = ...; break; }
RECURSIVE ExtractThinking(_, _)
ExtractThinking(s, k) ==
    IF k > Len(thinkingPatterns) THEN None
    ELSE LET m == ThinkingMatch(s, thinkingPatterns[k])
         IN  IF m # None THEN Some(Trim(m[1].inner)) ELSE ExtractThinking(s, k + 1)

\* cleanContent.replace(pattern, '')
RemoveThinking(s, pat) ==
    LET m == ThinkingMatch(s, pat)
    IN  IF m = None THEN s
        ELSE SubSeq(s, 1, m[1].start - 1) \o SubSeq(s, m[1].end + 1, Len(s))

\* for (const pattern of thinkingPatterns) cleanContent = cleanContent.replace(...)
RECURSIVE RemoveThinkings(_, _)
RemoveThinkings(s, k) ==
    IF k > Len(thinkingPatterns) THEN s
    ELSE RemoveThinkings(RemoveThinking(s, thinkingPatterns[k]), k + 1)

parseResponse_EmptyThinking(content) ==
    [content |-> Trim(RemoveThinkings(RemoveFencesFrom(content, 1), 1)),
     codeBlocks |-> CodeBlocksFrom(content, 1),
     thinking |-> LET t == ExtractThinking(content, 1)
                  IN  IF t = None THEN Some(<<>>) ELSE t,
     toolCalls |-> <<>>]

\* static parseResponse(content: string): ParsedResult
parseResponse(content) ==
    [content |-> Trim(RemoveThinkings(RemoveFencesFrom(content, 1), 1)),
     codeBlocks |-> CodeBlocksFrom(content, 1),
     thinking |-> ExtractThinking(content, 1),
     toolCalls |-> <<>>]

\* A caller applies parseResponse to a text.
ParseCall ==
    /\ parsed = None
    /\ parsed' = Some(parseResponse(text))
    /\ UNCHANGED text
    /\ UNCHANGED <<retryVars, streamVars, simVars, concVars, factoryVars, sideVars>>

ParseInit ==
    /\ providerName = "OpenRouterProvider"
    /\ modelId = "m1"
    /\ opPlan = [n \in 1..PlanLen |-> "ok"]
    /\ caller = "none"
    /\ options = [retries |-> None, retryInterval |-> None, retryBackoff |-> None,
                  system |-> None]
    /\ messages = <<>>
    /\ config = DEFAULT_RETRY_CONFIG
    /\ context = None
    /\ attempt = 0
    /\ lastError = None
    /\ pc = "idle"
    /\ invocations = 0
    /\ inFlight = 0
    /\ timer = None
    /\ trace = <<>>
    /\ resolved = None
    /\ rejected = None
    /\ chatText = <<>>
    /\ variant = "openai"
    /\ StreamIdle
    /\ SimIdle
    /\ text \in ParseTexts
    /\ parsed = None
    /\ ConcIdle
    /\ FactoryIdle
    /\ SideIdle

ParseNext == ParseCall

ParseSpec == ParseInit /\ [][ParseNext]_vars

(***************************************************************************)
(* Two chats in flight at once (llm.ts:25-45, openrouter.ts:115-172)       *)
(***************************************************************************)

MaxConcChunks == 2

Invocations == {1, 2}

\* No executeWithRetry call of the single-invocation model has been made.
RetryIdle ==
    /\ providerName = "OpenRouterProvider"
    /\ modelId = "m1"
    /\ opPlan = [n \in 1..PlanLen |-> "ok"]
    /\ caller = "none"
    /\ options = [retries |-> None, retryInterval |-> None, retryBackoff |-> None,
                  system |-> None]
    /\ messages = <<>>
    /\ config = DEFAULT_RETRY_CONFIG
    /\ context = None
    /\ attempt = 0
    /\ lastError = None
    /\ pc = "idle"
    /\ invocations = 0
    /\ inFlight = 0
    /\ timer = None
    /\ trace = <<>>
    /\ resolved = None
    /\ rejected = None
    /\ chatText = <<>>

\* The text of the records the upstream of invocation k streams.
TextOf(k) == <<IF k = 1 THEN "a1" ELSE "a2">>

\* The lines the upstream of invocation k sends, and the fragments they come in.
ConcLines(k) == {Rec(TextOf(k), FALSE), Sentinel, Garbage}
ConcChunks(k) == UNION {[1..n -> ConcLines(k)] : n \in ChunkLens}

\* Both chats are called with { retries: 0 }.
ConcConfig == getRetryConfig(StreamOptions(0))

OwnBuffer_Shared(bufs, k) == bufs[1]

\* let fullContent = '' is declared inside the executor of the promise each
\* streamChat call creates: the 'data' handler of call k closes over its own.
OwnBuffer(bufs, k) == bufs[k]

\* LLM.chat(content, { retries: 0 }, streamCallback) is called for invocation k,
\* and the provider's streamChat starts.
ConcChat(k) ==
    /\ cPc[k] = "idle"
    /\ cPc' = [cPc EXCEPT ![k] = "awaitOp"]
    /\ cFull' = [cFull EXCEPT ![k] = <<>>]
    /\ cOpen' = [cOpen EXCEPT ![k] = TRUE]
    /\ UNCHANGED <<cSink, cResult, cCount, cOrder>>
    /\ UNCHANGED <<retryVars, streamVars, simVars, parseVars, factoryVars, sideVars>>

\* response.data.on('data', ...) of invocation k runs to completion for one fragment.
ConcData(k) ==
    /\ cOpen[k]
    /\ cCount[k] < MaxConcChunks
    /\ \E c \in ConcChunks(k) :
          LET h == OnData("openai", c, OwnBuffer(cFull, k))
          IN  /\ cFull' = [cFull EXCEPT ![k] = h.fullContent]
              /\ cSink' = [cSink EXCEPT ![k] = @ \o h.calls]
              /\ IF cPc[k] = "awaitOp" /\ h.results # <<>>
                 THEN /\ cPc' = [cPc EXCEPT ![k] = "resolved"]
                      /\ cResult' = [cResult EXCEPT ![k] = Some(h.results[1])]
                 ELSE UNCHANGED <<cPc, cResult>>
    /\ cCount' = [cCount EXCEPT ![k] = @ + 1]
    /\ cOrder' = Append(cOrder, k)
    /\ UNCHANGED cOpen
    /\ UNCHANGED <<retryVars, streamVars, simVars, parseVars, factoryVars, sideVars>>

\* response.data.on('error', reject) of invocation k; with no retry left the
\* pending chat fails.
ConcError(k) ==
    /\ cOpen[k]
    /\ cOpen' = [cOpen EXCEPT ![k] = FALSE]
    /\ IF cPc[k] = "awaitOp"
       THEN \E e \in {"E1"} :
               /\ cPc' = [cPc EXCEPT ![k] = "rejected"]
               /\ cResult' = [cResult EXCEPT ![k] =
                                Some(ErrorOf(RetryErrorMessage(ConcConfig,
                                    Some(ChatContext("OpenRouterProvider", "m1")), e)))]
       ELSE UNCHANGED <<cPc, cResult>>
    /\ UNCHANGED <<cFull, cSink, cCount, cOrder>>
    /\ UNCHANGED <<retryVars, streamVars, simVars, parseVars, factoryVars, sideVars>>

\* The upstream of invocation k closes the connection.
ConcEnd(k) ==
    /\ cOpen[k]
    /\ cOpen' = [cOpen EXCEPT ![k] = FALSE]
    /\ UNCHANGED <<cPc, cFull, cSink, cResult, cCount, cOrder>>
    /\ UNCHANGED <<retryVars, streamVars, simVars, parseVars, factoryVars, sideVars>>

ConcInit ==
    /\ RetryIdle
    /\ variant = "openai"
    /\ StreamIdle
    /\ SimIdle
    /\ ParseIdle
    /\ ConcIdle
    /\ FactoryIdle
    /\ SideIdle

ConcNext ==
    \E k \in Invocations : ConcChat(k) \/ ConcData(k) \/ ConcError(k) \/ ConcEnd(k)

ConcSpec == ConcInit /\ [][ConcNext]_vars

(***************************************************************************)
(* MultiLLM.createProvider (index.ts:22-61) and the providers' constructors *)
(***************************************************************************)

MaxKeyLen == 3

\* The provider types of the switch whose class is among the sources; the
\* classes of 'cerebras', 'together' and 'deepinfra' are imported from files
\* that are not, and those types are not drawn as inputs.
SourcedTypes ==
    {"openai", "anthropic", "openrouter", "groq", "ollama", "azure", "google",
     "cohere", "mistral", "fireworks", "perplexity", "replicate", "huggingface",
     "bedrock"}

\* export type ProviderType
SupportedTypes == SourcedTypes \cup {"cerebras", "together", "deepinfra"}

\* Strings that are no ProviderType.
UnsupportedTypes == {"llama", ""}

\* The API keys and base URLs createProvider is called with.
KeyChars == {"a", ":"}
ApiKeys == UNION {[1..n -> KeyChars] : n \in 0..MaxKeyLen}
BaseUrls == {None, Some(<<>>), Some(<<"u">>)}

\* new XProvider(...) returned an object / threw an Error.
Returned(fields) == [kind |-> "provider"] @@ fields
Thrown(msg) == [kind |-> "error", message |-> msg]

\* Provider constructor: this.apiKey = apiKey; this.baseUrl = baseUrl
ProviderBase(cls, key, url) ==
    Returned([class |-> cls, apiKey |-> key, baseUrl |-> url])

\* super(apiKey, baseUrl); this.baseUrl = baseUrl || default
WithDefaultUrl(cls, key, url, default) ==
    ProviderBase(cls, key, IF TruthyStr(url) THEN url ELSE Some(<<default>>))

\* AzureProvider constructor
AzureProvider(key, url) ==
    IF ~TruthyStr(url)
    THEN Thrown(<<"Azure baseUrl is required">>)
    ELSE Returned([class |-> "AzureProvider", apiKey |-> key, baseUrl |-> url,
                   apiVersion |-> "2024-02-15-preview"])

\* apiKey.split(':')
RECURSIVE SplitColon(_)
SplitColon(s) ==
    IF \A k \in 1..Len(s) : s[k] # ":" THEN <<s>>
    ELSE LET k == CHOOSE k \in 1..Len(s) :
                      s[k] = ":" /\ \A j \in 1..(k - 1) : s[j] # ":"
         IN  <<SubSeq(s, 1, k - 1)>> \o SplitColon(SubSeq(s, k + 1, Len(s)))

BedrockProvider_NoCheck(key, url) ==
    LET parts == SplitColon(key)
    IN  Returned([class |-> "BedrockProvider", apiKey |-> key, baseUrl |-> url,
                  region |-> "us-east-1", accessKeyId |-> parts[1],
                  secretAccessKey |-> IF Len(parts) >= 2 THEN Some(parts[2]) ELSE None])

\* BedrockProvider constructor: const [accessKeyId, secretAccessKey] =
\* apiKey.split(':'); if (!accessKeyId || !secretAccessKey) throw ...
BedrockProvider(key, url) ==
    LET parts == SplitColon(key)
        accessKeyId == parts[1]
        secretAccessKey == IF Len(parts) >= 2 THEN Some(parts[2]) ELSE None
    IN  IF accessKeyId = <<>> \/ ~TruthyStr(secretAccessKey)
        THEN Thrown(<<"Bedrock requires API key in format: accessKeyId:secretAccessKey">>)
        ELSE Returned([class |-> "BedrockProvider", apiKey |-> key, baseUrl |-> url,
                       region |-> "us-east-1", accessKeyId |-> accessKeyId,
                       secretAccessKey |-> secretAccessKey])

\* MultiLLM.createProvider(type, apiKey, baseUrl), for the types drawn.
createProvider(type, key, url) ==
    CASE type = "openai" ->
           WithDefaultUrl("OpenAIProvider", key, url, "https://api.openai.com/v1")
      [] type = "anthropic" ->
           WithDefaultUrl("AnthropicProvider", key, url, "https://api.anthropic.com/v1")
      [] type = "openrouter" ->
           WithDefaultUrl("OpenRouterProvider", key, url, "https://openrouter.ai/api/v1")
      [] type = "groq" ->
           WithDefaultUrl("GroqProvider", key, url, "https://api.groq.com/openai/v1")
      [] type = "ollama" ->
           WithDefaultUrl("OllamaProvider", key, url, "http://localhost:11434")
      [] type = "azure" -> AzureProvider(key, url)
      [] type = "google" ->
           WithDefaultUrl("GoogleProvider", key, url,
                          "https://generativelanguage.googleapis.com/v1beta")
      [] type = "cohere" ->
           WithDefaultUrl("CohereProvider", key, url, "https://api.cohere.com/v2")
      [] type = "mistral" ->
           WithDefaultUrl("MistralProvider", key, url, "https://api.mistral.ai/v1")
      [] type = "fireworks" ->
           WithDefaultUrl("FireworksProvider", key, url,
                          "https://api.fireworks.ai/inference/v1")
      [] type = "perplexity" ->
           WithDefaultUrl("PerplexityProvider", key, url, "https://api.perplexity.ai")
      [] type = "replicate" ->
           WithDefaultUrl("ReplicateProvider", key, url, "https://api.replicate.com/v1")
      [] type = "huggingface" ->
           WithDefaultUrl("HuggingFaceProvider", key, url,
                          "https://api-inference.huggingface.co")
      [] type = "bedrock" -> BedrockProvider(key, url)
      [] type \notin SupportedTypes ->
           Thrown(<<"Unsupported provider type: ", type>>)

\* A caller runs MultiLLM.createProvider(provType, apiKey, baseUrl).
CreateProviderCall ==
    /\ created = None
    /\ created' = Some(createProvider(provType, apiKey, baseUrl))
    /\ UNCHANGED <<provType, apiKey, baseUrl>>
    /\ UNCHANGED <<retryVars, streamVars, simVars, parseVars, concVars, sideVars>>

FactoryInit ==
    /\ RetryIdle
    /\ variant = "openai"
    /\ StreamIdle
    /\ SimIdle
    /\ ParseIdle
    /\ ConcIdle
    /\ provType \in SourcedTypes \cup UnsupportedTypes
    /\ apiKey \in ApiKeys
    /\ baseUrl \in BaseUrls
    /\ created = None
    /\ SideIdle

FactoryNext == CreateProviderCall

FactorySpec == FactoryInit /\ [][FactoryNext]_vars

(***************************************************************************)
(* ReplicateProvider.pollForCompletion (part_007:164-187)                  *)
(***************************************************************************)

\* const maxAttempts = 60
PollMaxAttempts == 60

\* response.data.status of a prediction
PollStatuses == {"starting", "processing", "succeeded", "failed"}

PollLoop_TestsAfter(att) ==
    IF att <= PollMaxAttempts
    THEN /\ pollPc' = "awaitGet"
         /\ pollCount' = pollCount + 1
         /\ UNCHANGED pollResult
    ELSE /\ pollPc' = "failed"
         /\ pollResult' = Some(Thrown(<<"Prediction timed out">>))
         /\ UNCHANGED pollCount

\* while (attempts < maxAttempts) { const response = await axios.get(...) ... }
\* throw new Error('Prediction timed out')
PollLoop(att) ==
    IF att < PollMaxAttempts
    THEN /\ pollPc' = "awaitGet"
         /\ pollCount' = pollCount + 1
         /\ UNCHANGED pollResult
    ELSE /\ pollPc' = "failed"
         /\ pollResult' = Some(Thrown(<<"Prediction timed out">>))
         /\ UNCHANGED pollCount

\* pollForCompletion(pollUrl) is called.
pollForCompletion ==
    /\ pollPc = "idle"
    /\ pollAttempts' = 0
    /\ PollLoop(0)
    /\ UNCHANGED <<retryVars, streamVars, simVars, parseVars, concVars, factoryVars,
                   mcpVars, frameVars>>

\* axios.get resolves: the poll reports a status.
PollAnswered ==
    /\ pollPc = "awaitGet"
    /\ \E st \in PollStatuses :
          CASE st = "succeeded" ->
                 /\ pollPc' = "returned"
                 /\ pollResult' = Some([kind |-> "data", status |-> st])
            [] st = "failed" ->
                 /\ pollPc' = "failed"
                 /\ pollResult' = Some(Thrown(<<"Prediction failed: ", "E1">>))
            [] OTHER ->
                 /\ pollPc' = "sleeping"
                 /\ UNCHANGED pollResult
    /\ UNCHANGED <<pollAttempts, pollCount>>
    /\ UNCHANGED <<retryVars, streamVars, simVars, parseVars, concVars, factoryVars,
                   mcpVars, frameVars>>

\* axios.get rejects: the await throws and nothing catches it.
PollRequestFails ==
    /\ pollPc = "awaitGet"
    /\ pollPc' = "failed"
    /\ pollResult' = Some(Thrown(<<"Request failed">>))
    /\ UNCHANGED <<pollAttempts, pollCount>>
    /\ UNCHANGED <<retryVars, streamVars, simVars, parseVars, concVars, factoryVars,
                   mcpVars, frameVars>>

\* The 5 second timer fires: attempts++, and the loop goes round.
PollTimerFires ==
    /\ pollPc = "sleeping"
    /\ pollAttempts' = pollAttempts + 1
    /\ PollLoop(pollAttempts')
    /\ UNCHANGED <<retryVars, streamVars, simVars, parseVars, concVars, factoryVars,
                   mcpVars, frameVars>>

PollInit ==
    /\ RetryIdle
    /\ variant = "openai"
    /\ StreamIdle
    /\ SimIdle
    /\ ParseIdle
    /\ ConcIdle
    /\ FactoryIdle
    /\ SideIdle

PollNext == pollForCompletion \/ PollAnswered \/ PollRequestFails \/ PollTimerFires

PollSpec == PollInit /\ [][PollNext]_vars

(***************************************************************************)
(* LLM.addMCP and LLM.dispose (llm.ts:16-23, 47-54)                        *)
(***************************************************************************)

Procs == 1..MaxProcs

\* The processes of a list.
Tracked(list) == {list[k] : k \in 1..Len(list)}

\* if (!process.killed) process.kill(), for the processes of the list
KillTargets(list) == {p \in Tracked(list) : ~killed[p]}

AfterDispose_Keeps(list) == list

\* this.mcpProcesses = []
AfterDispose(list) == <<>>

\* addMCP(startupCommand): spawn(command, args, ...) and push
addMCP ==
    /\ spawned < MaxProcs
    /\ spawned' = spawned + 1
    /\ mcpProcesses' = Append(mcpProcesses, spawned')
    /\ lastOp' = "addMCP"
    /\ UNCHANGED <<killed, exited, killCalls, disposeCalls>>
    /\ UNCHANGED <<retryVars, streamVars, simVars, parseVars, concVars, factoryVars,
                   pollVars, frameVars>>

\* A spawned process exits, of its own accord or after a signal.
ProcessExits ==
    /\ \E p \in 1..spawned :
          /\ ~exited[p]
          /\ exited' = [exited EXCEPT ![p] = TRUE]
    /\ UNCHANGED <<mcpProcesses, spawned, killed, killCalls, lastOp, disposeCalls>>
    /\ UNCHANGED <<retryVars, streamVars, simVars, parseVars, concVars, factoryVars,
                   pollVars, frameVars>>

\* dispose(): kill() is called on every tracked process whose killed flag is
\* unset; the flag is set when the signal could be delivered, that is when
\* the process has not exited; then the list is replaced.
dispose ==
    /\ disposeCalls < MaxDisposes
    /\ disposeCalls' = disposeCalls + 1
    /\ killCalls' = [p \in Procs |->
                        IF p \in KillTargets(mcpProcesses) THEN killCalls[p] + 1
                        ELSE killCalls[p]]
    /\ killed' = [p \in Procs |->
                     IF p \in KillTargets(mcpProcesses) THEN ~exited[p] ELSE killed[p]]
    /\ mcpProcesses' = AfterDispose(mcpProcesses)
    /\ lastOp' = "dispose"
    /\ UNCHANGED <<spawned, exited>>
    /\ UNCHANGED <<retryVars, streamVars, simVars, parseVars, concVars, factoryVars,
                   pollVars, frameVars>>

McpInit ==
    /\ RetryIdle
    /\ variant = "openai"
    /\ StreamIdle
    /\ SimIdle
    /\ ParseIdle
    /\ ConcIdle
    /\ FactoryIdle
    /\ SideIdle

McpNext == addMCP \/ ProcessExits \/ dispose

McpSpec == McpInit /\ [][McpNext]_vars

(***************************************************************************)
(* What the attempts of one chat hand to the provider (llm.ts:30-44,       *)
(* google.ts:38-58, 146-168)                                               *)
(***************************************************************************)

FrameRetryCounts == 0..MaxRetries

FrameOptions ==
    [retries       : {Some(r) : r \in FrameRetryCounts},
     retryInterval : {Some(0)},
     retryBackoff  : {None},
     system        : {None} \cup {Some(s) : s \in SystemTexts}]

\* The Google role of a message.
GoogleRole(m) == IF m.role = "assistant" THEN "model" ELSE "user"

\* contents after the for loop: one entry per message that is no system message
GoogleContents(msgs) ==
    LET rest == SelectSeq(msgs, LAMBDA m : m.role # "system")
    IN  [k \in 1..Len(rest) |-> [role |-> GoogleRole(rest[k]), text |-> rest[k].content]]

\* messages.find(m => m.role === 'system') (optional)
SystemMessage(msgs) ==
    LET sys == SelectSeq(msgs, LAMBDA m : m.role = "system")
    IN  IF sys = <<>> THEN None ELSE Some(sys[1])

\* contents[0].parts[0].text = systemMessage.content + "\n\n" + contents[0].parts[0].text
WithSystemText(contents, sys) ==
    IF sys # None /\ Len(contents) > 0 /\ contents[1].role = "user"
    THEN [contents EXCEPT ![1].text = sys[1].content \o <<"\n\n">> \o @]
    ELSE contents

convertMessages_InPlace(msgs) ==
    LET contents == WithSystemText(GoogleContents(msgs), SystemMessage(msgs))
    IN  [contents |-> contents,
         messages |-> [k \in 1..Len(contents) |->
                          [role |-> IF contents[k].role = "model" THEN "assistant"
                                                                   ELSE "user",
                           content |-> contents[k].text]]]

\* GoogleProvider.convertMessages(messages): the contents it returns, and the
\* messages array as the call leaves it: the array is only read.
convertMessages(msgs) ==
    [contents |-> WithSystemText(GoogleContents(msgs), SystemMessage(msgs)),
     messages |-> msgs]

\* The operation closure runs: provider.chat(this.modelId, messages, options,
\* streamCallback) converts the messages and builds its payload.
ProviderCall(msgs, opts) ==
    /\ received' = Append(received, [messages |-> msgs, options |-> opts])
    /\ payloads' = Append(payloads, convertMessages(msgs).contents)
    /\ messages' = convertMessages(msgs).messages
    /\ options' = opts

\* LLM.chat(content, options) on a Google provider, up to the first await.
FrameChat ==
    /\ pc = "idle"
    /\ \E content \in Contents, opts \in FrameOptions :
          /\ chatText' = content
          /\ config' = getRetryConfig(opts)
          /\ context' = Some(ChatContext(providerName, modelId))
          /\ WhileLoop(config', 0, None, trace)
          /\ ProviderCall(BuildMessages(content, opts), opts)
    /\ caller' = "chat"
    /\ attempt' = 0
    /\ lastError' = None
    /\ UNCHANGED <<providerName, modelId, opPlan, timer, resolved>>
    /\ UNCHANGED <<streamVars, simVars, parseVars, concVars, factoryVars, pollVars,
                   mcpVars>>

\* sleep(ms) is over: the loop goes round and the closure runs again.
FrameSleepElapses ==
    /\ pc = "sleeping"
    /\ timer # None
    /\ timer' = None
    /\ WhileLoop(config, attempt, lastError, Append(trace, Event("woke", timer[1])))
    /\ IF pc' = "awaitOp" THEN ProviderCall(messages, options)
                          ELSE UNCHANGED <<received, payloads, messages, options>>
    /\ UNCHANGED <<providerName, modelId, opPlan, caller, config, context, attempt,
                   lastError, resolved, chatText>>
    /\ UNCHANGED <<streamVars, simVars, parseVars, concVars, factoryVars, pollVars,
                   mcpVars>>

FrameInit ==
    /\ providerName = "GoogleProvider"
    /\ modelId = "m1"
    /\ opPlan \in [1..PlanLen -> {"ok", "Google chat failed: E1"}]
    /\ caller = "none"
    /\ options = [retries |-> None, retryInterval |-> None, retryBackoff |-> None,
                  system |-> None]
    /\ messages = <<>>
    /\ config = DEFAULT_RETRY_CONFIG
    /\ context = None
    /\ attempt = 0
    /\ lastError = None
    /\ pc = "idle"
    /\ invocations = 0
    /\ inFlight = 0
    /\ timer = None
    /\ trace = <<>>
    /\ resolved = None
    /\ rejected = None
    /\ chatText = <<>>
    /\ variant = "google"
    /\ StreamIdle
    /\ SimIdle
    /\ ParseIdle
    /\ ConcIdle
    /\ FactoryIdle
    /\ SideIdle

FrameNext == FrameChat \/ OperationResolves \/ OperationRejects \/ FrameSleepElapses

FrameSpec == FrameInit /\ [][FrameNext]_vars

----------------------------------------------------------------------------
(* Vocabulary of the properties *)

Terminal == pc \in {"resolved", "rejected"}

\* The operation fails on every invocation.
AlwaysFails == \A n \in DOMAIN opPlan : opPlan[n] # "ok"

\* The operation fails exactly r times and then succeeds.
FailsThenSucceeds(r) ==
    /\ r + 1 \in DOMAIN opPlan
    /\ \A n \in 1..r : opPlan[n] # "ok"
    /\ opPlan[r + 1] = "ok"

\* Index of the first successful invocation, or r + 1 if none succeeds.
FirstSuccess(r) ==
    IF \E n \in DOMAIN opPlan : opPlan[n] = "ok"
    THEN CHOOSE n \in DOMAIN opPlan :
            /\ opPlan[n] = "ok"
            /\ \A m \in DOMAIN opPlan : opPlan[m] = "ok" => n <= m
    ELSE r + 1

Min(a, b) == IF a <= b THEN a ELSE b

\* sub occurs in s as a contiguous run of tokens
Contains(s, sub) ==
    \E i \in 0..(Len(s) - Len(sub)) : SubSeq(s, i + 1, i + Len(sub)) = sub

FailedAfter(r) == <<"Failed after ", ToString(r), " retries">>

EventCount(e) == Cardinality({k \in 1..Len(trace) : trace[k].ev = e})

RECURSIVE TotalWaited(_)
\* Sum of the delays of the sleeps that have elapsed
TotalWaited(tr) ==
    IF tr = <<>> THEN 0
    ELSE (IF Head(tr).ev = "woke" THEN Head(tr).n ELSE 0) + TotalWaited(Tail(tr))

RECURSIVE GeometricSum(_, _, _)
\* a * b^0 + ... + a * b^(n-1)
GeometricSum(a, b, n) == IF n <= 0 THEN 0 ELSE GeometricSum(a, b, n - 1) + a * Pow(b, n - 1)

----------------------------------------------------------------------------
(* C1: for retries = R >= 0 and an operation that fails exactly R times and
   then succeeds, executeWithRetry returns the success value of the
   (R+1)-th invocation, after exactly R + 1 invocations. *)
C1_SucceedsAfterRetries ==
    (Terminal /\ config.retries >= 0 /\ FailsThenSucceeds(config.retries)) =>
        /\ pc = "resolved"
        /\ resolved = Some(OpValue(config.retries + 1))
        /\ invocations = config.retries + 1

C1_Witness ==
    /\ pc = "resolved"
    /\ config.retries = 2
    /\ FailsThenSucceeds(2)
    /\ invocations = 3

(* C2: for retries = R >= 0 an operation that always fails makes
   executeWithRetry fail after exactly R + 1 invocations, with a message
   containing "Failed after R retries". *)
C2_ExhaustionFails ==
    (Terminal /\ config.retries >= 0 /\ AlwaysFails) =>
        /\ pc = "rejected"
        /\ invocations = config.retries + 1
        /\ rejected # None
        /\ rejected[1].defined
        /\ Contains(rejected[1].message, FailedAfter(config.retries))

C2_Witness ==
    /\ pc = "rejected"
    /\ AlwaysFails
    /\ config.retries = 2
    /\ invocations = 3

(* C3: the number of invocations of the operation is min(k, maxRetries + 1),
   k the index of the first successful invocation (maxRetries + 1 if none);
   the operation is never invoked again after it has succeeded, and an
   operation that succeeds at once is invoked exactly once.  The count
   min(k, maxRetries + 1) is a number of invocations for maxRetries >= 0. *)
C3_AttemptCount ==
    (pc # "idle" /\ config.retries >= 0) =>
        /\ invocations <= Min(FirstSuccess(config.retries), config.retries + 1)
        /\ Terminal => invocations = Min(FirstSuccess(config.retries), config.retries + 1)
        /\ \A k \in 1..Len(trace) : trace[k].ev = "succeeded" => k = Len(trace)
        /\ (Terminal /\ opPlan[1] = "ok") => (invocations = 1 /\ pc = "resolved")

C3_Witness ==
    /\ pc = "resolved"
    /\ config.retries = 2
    /\ FirstSuccess(2) = 2
    /\ invocations = 2

(* C4: the delay waited immediately before attempt i (i >= 2) is
   retryInterval * retryBackoff^(i-2), exactly. *)
C4_BackoffDelay ==
    \A k \in 1..Len(trace) :
        (trace[k].ev = "attempt" /\ trace[k].n >= 2) =>
            /\ k >= 3
            /\ trace[k - 1] = Event("woke", config.retryInterval
                                            * Pow(config.retryBackoff, trace[k].n - 2))
            /\ trace[k - 2] = Event("sleep", trace[k - 1].n)

C4_Witness ==
    /\ config.retryInterval = 50
    /\ config.retryBackoff = 3
    /\ \E k \in 2..Len(trace) :
          /\ trace[k] = Event("attempt", 3)
          /\ trace[k - 1] = Event("woke", 150)
    /\ \E k \in 2..Len(trace) :
          /\ trace[k] = Event("attempt", 2)
          /\ trace[k - 1] = Event("woke", 50)

(* C5: with retries = 0 the operation is invoked exactly once and no delay
   is ever waited; if that invocation fails the call fails with a message
   containing "Failed after 0 retries". *)
C5_ZeroRetries ==
    (pc # "idle" /\ config.retries = 0) =>
        /\ invocations = 1
        /\ timer = None
        /\ EventCount("sleep") = 0
        /\ EventCount("woke") = 0
        /\ (Terminal /\ opPlan[1] # "ok") =>
              /\ pc = "rejected"
              /\ rejected[1].defined
              /\ Contains(rejected[1].message, FailedAfter(0))

C5_Witness ==
    /\ config.retries = 0
    /\ pc = "rejected"
    /\ opPlan[1] # "ok"
    /\ invocations = 1

(* C6: on exhaustion the message is exactly "Failed after {retries} retries",
   then " ({context})" if and only if a context label was supplied (the
   empty string is no label), then ": " and the message of the failure of
   the last attempt. *)
C6_ExhaustedMessage ==
    (pc = "rejected" /\ invocations >= 1) =>
        rejected = Some(ErrorOf(
            <<"Failed after ", ToString(config.retries), " retries">>
            \o (IF context # None /\ context[1] # <<>>
                THEN <<" (">> \o context[1] \o <<")">> ELSE <<>>)
            \o <<": ", opPlan[invocations]>>))

C6_Witness ==
    /\ pc = "rejected"
    /\ caller = "direct"
    /\ context = Some(<<"test-context">>)
    /\ invocations = 3
    /\ opPlan[1] # opPlan[3]
    /\ opPlan[2] # opPlan[3]
    /\ rejected[1].message =
          <<"Failed after ", "2", " retries", " (", "test-context", ")", ": ", opPlan[3]>>

(* C7: two attempts are never in flight together: attempt i + 1 starts only
   after attempt i has failed and the sleep that follows it has elapsed. *)
C7_Sequential ==
    /\ inFlight <= 1
    /\ inFlight = 1 => (pc = "awaitOp" /\ timer = None)
    /\ \A k \in 1..Len(trace) :
          (trace[k].ev = "attempt" /\ trace[k].n >= 2) =>
              /\ k >= 4
              /\ trace[k - 1].ev = "woke"
              /\ trace[k - 2] = Event("sleep", trace[k - 1].n)
              /\ trace[k - 3] = Event("failed", trace[k].n - 1)

C7_Witness ==
    /\ pc = "awaitOp"
    /\ invocations = 3
    /\ inFlight = 1
    /\ EventCount("woke") = 2

(* C8: an always-failing operation under retries = R >= 0 waits exactly R
   delays, none after the final failure; the total is the sum of
   retryInterval * retryBackoff^j for j = 0..R-1. *)
C8_TotalWait ==
    (pc = "rejected" /\ config.retries >= 0 /\ AlwaysFails) =>
        /\ EventCount("sleep") = config.retries
        /\ EventCount("woke") = config.retries
        /\ timer = None
        /\ trace[Len(trace)] = Event("failed", config.retries + 1)
        /\ TotalWaited(trace)
             = GeometricSum(config.retryInterval, config.retryBackoff, config.retries)

C8_Witness ==
    /\ pc = "rejected"
    /\ AlwaysFails
    /\ config = [retries |-> 1, retryInterval |-> 50, retryBackoff |-> 3]
    /\ TotalWaited(trace) = 50
    /\ Contains(rejected[1].message, FailedAfter(1))

(* C9: getRetryConfig takes each of retries, retryInterval, retryBackoff
   from the options when supplied and from the defaults 1, 1000, 2 when
   absent, each field independently. *)
C9_RetryConfigPerField ==
    caller = "chat" =>
        /\ config.retries = (IF options.retries = None THEN 1 ELSE options.retries[1])
        /\ config.retryInterval =
              (IF options.retryInterval = None THEN 1000 ELSE options.retryInterval[1])
        /\ config.retryBackoff =
              (IF options.retryBackoff = None THEN 2 ELSE options.retryBackoff[1])

C9_Witness ==
    /\ caller = "chat"
    /\ options.retries = Some(0)
    /\ options.retryInterval = None
    /\ options.retryBackoff = Some(3)
    /\ config = [retries |-> 0, retryInterval |-> 1000, retryBackoff |-> 3]

(* C10: LLM.chat resolves with the ChatResult of the transport or fails with
   "Failed after {retries} retries ({ProviderClassName}:{modelId}): {message
   of the last transport failure}"; with options {retries: R}, R >= 0, and a
   transport that always fails the message contains "Failed after R retries"
   and the transport is called exactly R + 1 times. *)
C10_ChatOutcome ==
    (caller = "chat" /\ Terminal /\ config.retries >= 0) =>
        /\ \/ /\ pc = "resolved"
              /\ opPlan[invocations] = "ok"
              /\ resolved = Some(OpValue(invocations))
              /\ rejected = None
           \/ /\ pc = "rejected"
              /\ resolved = None
              /\ rejected = Some(ErrorOf(
                    <<"Failed after ",
                      ToString(IF options.retries = None THEN 1 ELSE options.retries[1]),
                      " retries", " (", providerName, ":", modelId, ")", ": ",
                      opPlan[invocations]>>))
        /\ (options.retries # None /\ AlwaysFails) =>
              /\ pc = "rejected"
              /\ Contains(rejected[1].message, FailedAfter(options.retries[1]))
              /\ invocations = options.retries[1] + 1

C10_Witness ==
    /\ caller = "chat"
    /\ pc = "rejected"
    /\ options.retries = Some(2)
    /\ AlwaysFails
    /\ invocations = 3
    /\ providerName = "OpenRouterProvider"
    /\ Contains(rejected[1].message, <<" (", "OpenRouterProvider", ":", "m1", ")">>)

(* C11: chat hands the transport [system message with options.system, user
   message with the chat text] when options.system is present (a non-empty
   string: the code tests truthiness) and [user message] alone otherwise;
   the user message is last, a system message is first and there is at
   most one. *)
C11_MessageSequence ==
    caller = "chat" =>
        /\ messages =
              (IF options.system # None /\ options.system[1] # <<>>
               THEN <<[role |-> "system", content |-> options.system[1]],
                      [role |-> "user", content |-> chatText]>>
               ELSE <<[role |-> "user", content |-> chatText]>>)
        /\ messages[Len(messages)].role = "user"
        /\ \A k \in 1..Len(messages) : messages[k].role = "system" => k = 1

C11_Witness ==
    /\ caller = "chat"
    /\ options.system = Some(<<"be brief">>)
    /\ chatText = <<"Hi", " there">>
    /\ messages = <<[role |-> "system", content |-> <<"be brief">>],
                    [role |-> "user", content |-> <<"Hi", " there">>]>>

----------------------------------------------------------------------------
(* Vocabulary of the streaming properties *)

TextsOf(ds) == [k \in 1..Len(ds) |-> ds[k].text]

\* The sink calls attempt n made, and those it made before its promise settled.
DeltasOf(n) == SelectSeq(deltas, LAMBDA d : d.att = n)
TimelyDeltasOf(n) == SelectSeq(deltas, LAMBDA d : d.att = n /\ ~d.late)

\* const content = response.data.choices[0].message.content: in non-streaming
\* mode the upstream sends the text of its records as one string.
NonStreamingContent(upstreamTexts) == Flatten(upstreamTexts)

\* The sink calls the last fragment caused.
NewDeltas == SubSeq(deltas, before.deltas + 1, Len(deltas))

\* The kinds of line that end a stream of each protocol.
TerminalKinds(v) ==
    CASE v = "openai"    -> {"sentinel"}
      [] v = "anthropic" -> {"stop"}
      [] v = "cohere"    -> {"sentinel", "stop"}
      [] v = "ollama"    -> {"stop"}
      [] v = "google"    -> {"stop"}

\* The lines of a fragment up to and including its first terminal marker.
UpToTerminal(v, c) ==
    LET ends == {k \in 1..Len(c) : c[k].kind \in TerminalKinds(v)}
    IN  IF ends = {} THEN c
        ELSE SubSeq(c, 1, CHOOSE k \in ends : \A j \in ends : k <= j)

FailsToDecode(line) == line.kind \in {"garbage", "head", "tail"}
BearsText(line) == line.kind \in {"record", "stop"} /\ line.text # <<>>

\* The texts of the text-bearing records of a fragment, in the fragment's order.
ValidTexts(v, c) == TextsOf(SelectSeq(UpToTerminal(v, c), BearsText))

(* C12 (as stated): when a streaming chat has resolved, the concatenation of
   all deltas the sink received during the invocation equals the full text
   the structurer was applied to.  Stated for the runs in which nothing was
   delivered after the resolution; it fails when an attempt that delivered
   deltas failed and was retried. *)
C12_AllDeltasAreFullText ==
    (sink /\ pc = "resolved" /\ \A k \in 1..Len(deltas) : ~deltas[k].late) =>
        Flatten(TextsOf(deltas)) = resolved[1].text

(* C12 (amended): when a streaming chat has resolved, the concatenation of the
   deltas that the resolving attempt delivered up to its resolution equals the
   full text the structurer was applied to. *)
C12_ResolvingAttemptDeltas ==
    (sink /\ pc = "resolved") =>
        Flatten(TextsOf(TimelyDeltasOf(invocations))) = resolved[1].text

C12_Witness ==
    /\ sink
    /\ pc = "resolved"
    /\ invocations = 2
    /\ DeltasOf(1) # <<>>
    /\ resolved[1].text = <<"a", "b">>
    /\ TextsOf(TimelyDeltasOf(2)) = << <<"a">>, <<"b">> >>

(* C13: cross-mode equivalence.  When a streaming attempt has resolved, the
   concatenation of the deltas it emitted equals the text non-streaming mode
   obtains for the same upstream text, whatever the variant and however the
   upstream text was split into records and network fragments. *)
C13_CrossModeEquivalence ==
    (sink /\ pc = "resolved") =>
        Flatten(TextsOf(TimelyDeltasOf(invocations))) = NonStreamingContent(sentTexts)

(* C14: a streaming attempt produces one terminal event: the structurer is
   applied at most once and at most one completion is handed to resolve,
   whatever terminal markers or fragments arrive later. *)
C14_OneTerminalEvent ==
    sink => (parseCalls <= 1 /\ resolveCalls <= 1)

(* C15: the sink is never called after the promise of the invocation has
   resolved. *)
C15_NoSinkCallAfterResolve ==
    \A k \in 1..Len(deltas) : ~deltas[k].late

(* C16: a record cut in two by the network is decoded as one record: when the
   fragment that brings its rest has been handled, its text has been
   delivered as the first delta of that fragment and appended to the text
   accumulated before. *)
C16_SplitRecordDecoded ==
    (sink /\ lastChunk # <<>> /\ lastChunk[1].kind = "tail" /\ ~before.settled) =>
        /\ NewDeltas # <<>>
        /\ NewDeltas[1].text = lastChunk[1].text
        /\ Len(fullContent) >= Len(before.fullContent) + Len(lastChunk[1].text)
        /\ SubSeq(fullContent, 1, Len(before.fullContent) + Len(lastChunk[1].text))
              = before.fullContent \o lastChunk[1].text

(* C17: a line that fails to decode is skipped locally.  When the last
   fragment held such a line (before its terminal marker, if any), the
   fragment caused exactly the deltas of its text-bearing records, the ones
   after the bad line included; the text accumulated before is kept and
   extended by them; nothing is rejected and the stream stays open. *)
C17_UndecodableSkipped ==
    (/\ sink
     /\ lastChunk # <<>>
     /\ \E k \in 1..Len(UpToTerminal(variant, lastChunk)) :
            FailsToDecode(lastChunk[k])) =>
        /\ TextsOf(NewDeltas) = ValidTexts(variant, lastChunk)
        /\ fullContent = before.fullContent \o Flatten(ValidTexts(variant, lastChunk))
        /\ rejected = None
        /\ pc \in {before.pc, "resolved"}
        /\ streamOpen

C17_Witness ==
    /\ sink
    /\ lastChunk = <<Garbage, Rec(<<"b">>, FALSE)>>
    /\ before.fullContent = <<"a">>
    /\ fullContent = <<"a", "b">>
    /\ TextsOf(NewDeltas) = << <<"b">> >>
    /\ pc = "awaitOp"

(* C18: the sink supplied to chat serves every attempt.  In every step of a
   streaming invocation the deltas already delivered stay delivered; within
   an attempt every text appended to the accumulated text was handed to the
   sink, tagged with that attempt; and a new attempt starts with an empty
   accumulated text, the same sink, and the earlier deltas untouched. *)
C18_Step ==
    sink =>
        /\ Len(deltas') >= Len(deltas)
        /\ SubSeq(deltas', 1, Len(deltas)) = deltas
        /\ invocations' = invocations =>
              LET new == SubSeq(deltas', Len(deltas) + 1, Len(deltas'))
              IN  /\ fullContent' = fullContent \o Flatten(TextsOf(new))
                  /\ \A k \in 1..Len(new) : new[k].att = invocations
        /\ invocations' > invocations =>
              /\ fullContent' = <<>>
              /\ deltas' = deltas
              /\ sink'

C18_SinkServesEveryAttempt == [][C18_Step]_vars

C18_Witness ==
    /\ sink
    /\ invocations = 2
    /\ trace[2].ev = "failed"
    /\ TextsOf(DeltasOf(1)) = << <<"a">> >>
    /\ TextsOf(DeltasOf(2)) = << <<"a">>, <<"b">> >>
    /\ TextsOf(deltas) = << <<"a">>, <<"a">>, <<"b">> >>

(* C19: deltas reach the sink in the transport's order, one call per
   text-bearing record: the calls a fragment causes are, in order, the texts
   of its text-bearing records (up to its terminal marker), one call each,
   appended after the calls of the earlier fragments. *)
C19_OneCallPerRecordInOrder ==
    (sink /\ lastChunk # <<>>) =>
        /\ Len(deltas) = before.deltas + Len(ValidTexts(variant, lastChunk))
        /\ \A k \in 1..Len(ValidTexts(variant, lastChunk)) :
              deltas[before.deltas + k].text = ValidTexts(variant, lastChunk)[k]

C19_Witness ==
    /\ sink
    /\ lastChunk = <<Rec(<<"a">>, FALSE), Rec(<<"b">>, FALSE)>>
    /\ before.deltas = 1
    /\ TextsOf(deltas) = << <<"b">>, <<"a">>, <<"b">> >>

(* C20: the result of a streaming attempt carries the usage statistics the
   transport supplied, and undefined when it supplied none. *)
C20_UsageAsSupplied ==
    (sink /\ pc = "resolved") =>
        resolved[1].usage = (IF usageSent THEN Some(UpstreamUsage) ELSE None)

(* C21: simulated streaming calls the sink at least once for every text, and
   what it has delivered is always a prefix of the text, character for
   character; when it is done the deltas concatenate to the whole text. *)
C21_SimulatedDeltas ==
    simPc # "idle" =>
        /\ Len(simDeltas) >= 1
        /\ Len(Flatten(simDeltas)) <= Len(simContent)
        /\ Flatten(simDeltas) = SubSeq(simContent, 1, Len(Flatten(simDeltas)))
        /\ simPc = "resolved" => Flatten(simDeltas) = simContent

C21_Witness ==
    /\ simPc = "resolved"
    /\ simContent = <<" ", "x", " ", " ">>
    /\ simDeltas = << <<" ">>, <<"x", " ">>, <<" ">>, <<>> >>

----------------------------------------------------------------------------
(* Vocabulary of the parser properties *)

Fences(s) == {p \in 1..Len(s) : s[p] = "FENCE"}

\* The end of the language tag that follows the marker at p.
TagEnd(s, p) == Largest({j \in p..Len(s) : \A i \in (p + 1)..j : IsWordChar(s[i])})

BlockOf(tag, inner) ==
    [language |-> IF tag = <<>> THEN <<"text">> ELSE tag, code |-> Trim(inner)]

\* The fenced regions as the claim describes them: a marker, the tag after it,
\* closed by the next marker.
RECURSIVE MarkerPairBlocks(_, _)
MarkerPairBlocks(s, from) ==
    LET opens == {p \in Fences(s) : p >= from /\ \E e \in Fences(s) : e > TagEnd(s, p)}
    IN  IF opens = {} THEN <<>>
        ELSE LET p == Least(opens)
                 e == Least({e \in Fences(s) : e > TagEnd(s, p)})
             IN  <<BlockOf(SubSeq(s, p + 1, TagEnd(s, p)),
                           SubSeq(s, TagEnd(s, p) + 1, e - 1))>>
                 \o MarkerPairBlocks(s, e + 1)

\* A marker opens a region when its tag is followed by a line break and a
\* marker comes after that.
OpensRegion(s, p) ==
    /\ p \in Fences(s)
    /\ TagEnd(s, p) < Len(s)
    /\ s[TagEnd(s, p) + 1] = "\n"
    /\ \E e \in Fences(s) : e > TagEnd(s, p) + 1

\* The regions [start, line break, end], left to right, none starting inside
\* an earlier one.
RECURSIVE Regions(_, _)
Regions(s, from) ==
    LET opens == {p \in from..Len(s) : OpensRegion(s, p)}
    IN  IF opens = {} THEN <<>>
        ELSE LET p == Least(opens)
                 n == TagEnd(s, p) + 1
                 e == Least({e \in Fences(s) : e > n})
             IN  <<[start |-> p, nl |-> n, end |-> e]>> \o Regions(s, e + 1)

(* C22 (as stated): parseResponse returns one block per region "marker,
   optional tag, next marker", in order, with the tag or "text" as language
   and the trimmed inner text as code. *)
C22_BlockPerMarkerPair ==
    parsed # None => parsed[1].codeBlocks = MarkerPairBlocks(text, 1)

(* C22 (amended): the same for the regions whose opening marker and tag are
   followed by a line break: N such regions give exactly N blocks, in the
   order of the regions, language the tag or "text", code the trimmed text
   between the line break and the closing marker. *)
C22_BlockPerRegion ==
    parsed # None =>
        LET rs == Regions(text, 1)
        IN  /\ Len(parsed[1].codeBlocks) = Len(rs)
            /\ \A k \in 1..Len(rs) :
                  parsed[1].codeBlocks[k] =
                      BlockOf(SubSeq(text, rs[k].start + 1, rs[k].nl - 1),
                              SubSeq(text, rs[k].nl + 1, rs[k].end - 1))

C22_Witness ==
    /\ text = <<"FENCE", "x", "\n", "x", "FENCE", "FENCE", "\n", "FENCE">>
    /\ parsed # None
    /\ parsed[1].codeBlocks = <<[language |-> <<"x">>, code |-> <<"x">>],
                                [language |-> <<"text">>, code |-> <<>>]>>

\* The tag pairs in the order the patterns are said to be tried.
TagPairsInOrder ==
    <<[open |-> "<thinking>", close |-> "</thinking>"],
      [open |-> "<thought>", close |-> "</thought>"],
      [open |-> "[thinking]", close |-> "[/thinking]"]>>

\* Pattern k matches somewhere in s: an opening tag with a closing tag after it.
PatternMatches(s, k) ==
    \E p, q \in 1..Len(s) :
        p < q /\ s[p] = TagPairsInOrder[k].open /\ s[q] = TagPairsInOrder[k].close

\* The first pattern, in the fixed order, that matches somewhere in s (0: none).
WinningPattern(s) ==
    IF \A k \in 1..3 : ~PatternMatches(s, k) THEN 0
    ELSE Least({k \in 1..3 : PatternMatches(s, k)})

\* Where the winning pattern matches first: its leftmost opening tag that has a
\* closing tag after it, and the nearest closing tag after that.
WinningSpan(s) ==
    LET pat == TagPairsInOrder[WinningPattern(s)]
        p == Least({p \in 1..Len(s) :
                       /\ s[p] = pat.open
                       /\ \E q \in (p + 1)..Len(s) : s[q] = pat.close})
    IN  [open |-> p, close |-> Least({q \in (p + 1)..Len(s) : s[q] = pat.close})]

\* s without the first region of pattern k (k = 0: s itself).
WithoutRegionOf(s, k) == IF k = 0 THEN s ELSE RemoveThinking(s, TagPairsInOrder[k])

(* C23: content is the text with every fenced region and the one thinking
   region that was extracted removed, then trimmed; thinking-style regions of
   the other patterns stay in content. *)
C23_ContentIsRemainder ==
    parsed # None =>
        parsed[1].content =
            Trim(WithoutRegionOf(RemoveFencesFrom(text, 1), WinningPattern(text)))

(* C24: at most one thinking region is extracted.  The patterns are tried in
   the order <thinking>, <thought>, [thinking]; the first that matches
   anywhere in the text wins, wherever the others match, and thinking is the
   trimmed text between that pattern's leftmost opening tag that has a
   closing tag after it and the nearest such closing tag; when no pattern
   matches, thinking is undefined. *)
C24_FirstPatternWins ==
    parsed # None =>
        IF WinningPattern(text) = 0 THEN parsed[1].thinking = None
        ELSE parsed[1].thinking =
                 Some(Trim(SubSeq(text, WinningSpan(text).open + 1,
                                  WinningSpan(text).close - 1)))

C24_Witness ==
    /\ text = <<"<thought>", "x", "</thought>", "<thinking>", "</thinking>">>
    /\ parsed # None
    /\ parsed[1].thinking = Some(<<>>)

(* C25: thinking markers are searched only outside fenced regions: whenever a
   thinking is extracted, the tag pair it was taken from does not lie wholly
   inside a fenced region. *)
C25_ThinkingOutsideFences ==
    (parsed # None /\ parsed[1].thinking # None) =>
        LET rs == Regions(text, 1)
        IN  \A k \in 1..Len(rs) :
               ~(rs[k].nl < WinningSpan(text).open /\ WinningSpan(text).close < rs[k].end)

(* C26: parseResponse is total: it can be applied to every text and returns a
   result with all four fields; without a fence marker codeBlocks is empty,
   without an opening thinking tag thinking is undefined. *)
C26_Total ==
    /\ DOMAIN parseResponse(text) = {"content", "codeBlocks", "thinking", "toolCalls"}
    /\ parsed # None =>
          /\ DOMAIN parsed[1] = {"content", "codeBlocks", "thinking", "toolCalls"}
          /\ Fences(text) = {} => parsed[1].codeBlocks = <<>>
          /\ (\A p \in 1..Len(text), k \in 1..3 : text[p] # thinkingPatterns[k].open)
                => parsed[1].thinking = None

C26_Witness ==
    /\ text = <<"x", " ", "x", "\n">>
    /\ parsed = Some([content |-> <<"x", " ", "x">>, codeBlocks |-> <<>>,
                      thinking |-> None, toolCalls |-> <<>>])

\* The chat invocation has settled: its promise resolved or rejected.
ChatTerminated == pc \in {"resolved", "rejected"}

\* Something can still happen to the current attempt: its response stream can
\* emit an event, its request is pending, or the retry timer is running.
EventPending ==
    \/ streamOpen
    \/ pc = "awaitOp" /\ path = "request"
    \/ pc = "sleeping" /\ timer # None

(* C27: every invocation of LLM.chat eventually terminates, resolving or failing,
   whatever the transport does, a streaming body that ends without its terminal
   marker included. In finite runs: an invocation that has not terminated always
   has an event still to come that can terminate it; once the response stream of
   a pending attempt has ended, nothing settles the promise any more. *)
C27_ChatTerminates ==
    (caller = "chat" /\ ~ChatTerminated) => EventPending

\* Every attempt made so far took the branch b of provider.chat.
AttemptsTook(b) == caller = "chat" => path = b

(* C29: streaming is selected only by the presence of the delta sink: without a
   sink no delta is ever delivered, no response stream is opened and the call
   resolves once, with the whole text the upstream answered; with a sink every
   attempt takes the streaming path. *)
C29_SinkSelectsStreaming ==
    /\ sink => AttemptsTook("stream")
    /\ ~sink =>
          /\ AttemptsTook("request")
          /\ deltas = <<>>
          /\ ~streamOpen
          /\ resolveCalls <= 1
          /\ pc = "resolved" =>
                /\ resolveCalls = 1
                /\ resolved[1].text = NonStreamingContent(sentTexts)

\* Without a sink, the second attempt resolved with the whole two-record text,
\* and no delta was delivered.
C29_Witness ==
    /\ caller = "chat"
    /\ ~sink
    /\ invocations = 2
    /\ pc = "resolved"
    /\ resolved[1].text = <<"a", "b">>
    /\ deltas = <<>>

\* ts starts with ps.
IsPrefix(ps, ts) == Len(ps) <= Len(ts) /\ SubSeq(ts, 1, Len(ps)) = ps

(* C28: two chats in flight share no mutable state: however the fragments of
   their two streams interleave, the sink of each receives only texts of its
   own stream, and the result of each is the concatenation of texts its own
   sink was given. *)
C28_NoSharedState ==
    \A k \in Invocations :
       /\ \A i \in 1..Len(cSink[k]) : cSink[k][i] = TextOf(k)
       /\ \A i \in 1..Len(cFull[k]) : cFull[k][i] = TextOf(k)[1]
       /\ cPc[k] = "resolved" =>
             /\ IsPrefix(cResult[k][1].text, Flatten(cSink[k]))
             /\ \A i \in 1..Len(cResult[k][1].text) :
                   cResult[k][1].text[i] = TextOf(k)[1]

\* The fragments of the two streams alternated, and each chat resolved with
\* the text of its own stream.
C28_Witness ==
    /\ cOrder = <<1, 2, 1, 2>>
    /\ cPc = [k \in Invocations |-> "resolved"]
    /\ cResult[1][1].text = <<"a1", "a1">>
    /\ cResult[2][1].text = <<"a2">>

\* createProvider returned a provider / threw an error whose message starts with m.
ReturnedProvider == created # None /\ created[1].kind = "provider"
ThrewStarting(m) ==
    /\ created # None
    /\ created[1].kind = "error"
    /\ created[1].message[1] = m

\* The API key has the form accessKeyId:secretAccessKey, both parts non-empty.
HasKeyPair(key) ==
    /\ Len(SplitColon(key)) >= 2
    /\ SplitColon(key)[1] # <<>>
    /\ SplitColon(key)[2] # <<>>

(* C30, as stated: for every supported provider type, createProvider called
   with an empty API key returns a provider without throwing, and called with
   a type outside the supported set it throws "Unsupported provider type". *)
C30_EmptyKeyCreates ==
    created # None =>
       /\ (provType \in SupportedTypes /\ apiKey = <<>>) => ReturnedProvider
       /\ provType \notin SupportedTypes => ThrewStarting("Unsupported provider type: ")

(* C30, amended: with any API key, the empty one included, createProvider
   returns a provider without throwing for every supported type other than
   'bedrock' and 'azure'; for 'azure' it does so exactly when a non-empty
   baseUrl is given; for 'bedrock' it does so exactly when the key has the form
   accessKeyId:secretAccessKey with both parts non-empty, and throws "Bedrock
   requires API key in format ..." otherwise, so with the empty key; with a
   type outside the supported set it throws "Unsupported provider type". *)
C30_CreateProvider ==
    created # None =>
       /\ provType \in SourcedTypes \ {"bedrock", "azure"} =>
             /\ ReturnedProvider
             /\ created[1].apiKey = apiKey
       /\ provType = "azure" =>
             IF TruthyStr(baseUrl) THEN ReturnedProvider
             ELSE ThrewStarting("Azure baseUrl is required")
       /\ provType = "bedrock" =>
             IF HasKeyPair(apiKey) THEN ReturnedProvider
             ELSE ThrewStarting(
                    "Bedrock requires API key in format: accessKeyId:secretAccessKey")
       /\ provType \notin SupportedTypes => ThrewStarting("Unsupported provider type: ")

\* createProvider('bedrock', '') was called and threw.
C30_Witness ==
    /\ provType = "bedrock"
    /\ apiKey = <<>>
    /\ created = Some(Thrown(
          <<"Bedrock requires API key in format: accessKeyId:secretAccessKey">>))

\* The attempts of the invocation that failed: all but the one that resolved.
FailedAttempts == 1..(invocations - 1)

(* C31: the ChatResult chat returns after one or more failed streaming
   attempts is built only from the attempt that succeeded: its text is the
   concatenation of the texts that attempt handed to the sink before it
   resolved, so no text a failed attempt accumulated is in it, and it is no
   longer than the text the upstream of that attempt sent. *)
C31_ResultFromSuccessfulAttempt ==
    (sink /\ pc = "resolved" /\ FailedAttempts # {}) =>
        LET own == SelectSeq(deltas, LAMBDA d : d.att = invocations /\ ~d.late)
        IN  /\ resolved[1].text = Flatten([k \in 1..Len(own) |-> own[k].text])
            /\ Len(resolved[1].text) <= Len(Flatten(sentTexts))

\* The first attempt delivered "a" and failed; the second resolved with "b".
C31_Witness ==
    /\ sink
    /\ pc = "resolved"
    /\ invocations = 2
    /\ TextsOf(DeltasOf(1)) = << <<"a">> >>
    /\ resolved[1].text = <<"b">>

(* C33: executeWithRetry invokes the operation at least once before it fails,
   for every integer value of retries, negative ones included: it never fails
   without having attempted the operation. *)
C33_AttemptsBeforeFailing ==
    pc = "rejected" => invocations >= 1

\* The delays of the sleeps the invocation has made so far.
SleepDelays == {trace[k].n : k \in {j \in 1..Len(trace) : trace[j].ev = "sleep"}}

(* C34: an explicit zero in the chat options is honoured, not replaced by a
   default: with options.retries = 0 the transport is called exactly once,
   and with options.retryInterval = 0 every backoff delay is zero. *)
C34_ExplicitZeroHonoured ==
    caller = "chat" =>
        /\ options.retries = Some(0) =>
              /\ invocations = 1
              /\ SleepDelays = {}
        /\ options.retryInterval = Some(0) => SleepDelays \subseteq {0}

\* chat with { retries: 0, retryInterval: 0 } failed after its single call.
C34_Witness ==
    /\ caller = "chat"
    /\ options.retries = Some(0)
    /\ options.retryInterval = Some(0)
    /\ pc = "rejected"
    /\ invocations = 1
    /\ trace[Len(trace)] = Event("failed", 1)

\* The position in fragment c of its first record that carries the terminal
\* marker (0: none does).
FirstStop(c) ==
    IF \A k \in 1..Len(c) : c[k].kind # "stop" THEN 0
    ELSE CHOOSE k \in 1..Len(c) :
            c[k].kind = "stop" /\ \A j \in 1..(k - 1) : c[j].kind # "stop"

(* C35: in the variants whose terminal marker travels inside a record (the
   done flag of NDJSON, Google's finishReason), a record that carries both
   text and the marker has its text handed to the sink and appended to the
   full text before the attempt completes: the attempt resolves in that
   fragment, the last sink call it made before resolving is that text, and the
   text it resolves with ends with it. *)
C35_TerminalRecordTextDelivered ==
    (/\ sink
     /\ variant \in InRecordVariants
     /\ lastChunk # <<>>
     /\ ~before.settled
     /\ FirstStop(lastChunk) # 0
     /\ lastChunk[FirstStop(lastChunk)].text # <<>>) =>
        LET t == lastChunk[FirstStop(lastChunk)].text
            n == Len(resolved[1].text)
        IN  /\ pc = "resolved"
            /\ NewDeltas # <<>>
            /\ NewDeltas[Len(NewDeltas)].text = t
            /\ ~NewDeltas[Len(NewDeltas)].late
            /\ n >= Len(t)
            /\ SubSeq(resolved[1].text, n - Len(t) + 1, n) = t
            /\ resolved[1].text = fullContent

\* A fragment brought a text record and then a record with text and the done
\* flag; the chat resolved with both texts.
C35_Witness ==
    /\ sink
    /\ variant = "ollama"
    /\ lastChunk = <<Rec(<<"a">>, FALSE), Stop(<<"b">>, TRUE)>>
    /\ ~before.settled
    /\ pc = "resolved"
    /\ resolved[1].text = <<"a", "b">>
    /\ TextsOf(NewDeltas) = << <<"a">>, <<"b">> >>

\* pollForCompletion has terminated, by a return or a throw.
PollDone == pollPc \in {"returned", "failed"}
PollThrew(m) == pollPc = "failed" /\ pollResult[1].message[1] = m

(* C36, as stated: pollForCompletion always terminates, in one of three ways:
   it returns the prediction as soon as a poll reports succeeded, fails with
   "Prediction failed" as soon as a poll reports failed, and otherwise fails
   with "Prediction timed out" after exactly 60 polls; it never polls more
   than 60 times. *)
C36_ThreeOutcomes ==
    /\ pollCount <= 60
    /\ pollPc # "idle" => pollCount = pollAttempts + (IF PollThrew("Prediction timed out") THEN 0 ELSE 1)
    /\ PollDone =>
          \/ pollPc = "returned" /\ pollResult[1].status = "succeeded"
          \/ PollThrew("Prediction failed: ")
          \/ PollThrew("Prediction timed out") /\ pollCount = 60

(* C36, amended: pollForCompletion never polls more than 60 times and every
   poll that is answered moves it on: it returns the prediction as soon as a
   poll reports succeeded, fails with "Prediction failed" as soon as one
   reports failed, fails with the request's own error as soon as a poll
   request fails, and otherwise fails with "Prediction timed out" after
   exactly 60 polls. *)
C36_PollOutcomes ==
    /\ pollCount <= 60
    /\ pollPc # "idle" => pollCount = pollAttempts + (IF PollThrew("Prediction timed out") THEN 0 ELSE 1)
    /\ PollDone =>
          \/ pollPc = "returned" /\ pollResult[1].status = "succeeded"
          \/ PollThrew("Prediction failed: ")
          \/ PollThrew("Request failed")
          \/ PollThrew("Prediction timed out") /\ pollCount = 60
    /\ pollPc = "sleeping" => pollResult = None

\* Sixty polls were answered with a status that is neither succeeded nor
\* failed, and the call failed with "Prediction timed out".
C36_Witness ==
    /\ PollThrew("Prediction timed out")
    /\ pollCount = 60
    /\ pollAttempts = 60

(* C37: after dispose, whatever addMCP calls came before, every spawned
   process has been sent a kill and the instance tracks no process; dispose
   is idempotent, so that no process is ever sent a second kill; and the
   processes added after a dispose are released by the next one. *)
C37_DisposeReleasesAll ==
    /\ \A p \in 1..MaxProcs : killCalls[p] <= 1
    /\ \A p \in 1..MaxProcs : killCalls[p] = 1 => p <= spawned
    /\ lastOp = "dispose" =>
          /\ mcpProcesses = <<>>
          /\ \A p \in 1..spawned : killCalls[p] = 1

\* Three processes were added around three disposes; the first had exited
\* before its kill, the others were running; each was sent one kill and none
\* is tracked.
C37_Witness ==
    /\ lastOp = "dispose"
    /\ disposeCalls = 3
    /\ spawned = 3
    /\ mcpProcesses = <<>>
    /\ exited[1] /\ ~killed[1]
    /\ killed[2] /\ killed[3]
    /\ \A p \in 1..3 : killCalls[p] = 1

\* The message sequence chat builds from its arguments: the system text, when
\* one is given, then the user's text.
BuiltMessages ==
    (IF options.system \in {None, Some(<<>>)} THEN <<>>
     ELSE <<[role |-> "system", content |-> options.system[1]]>>)
        \o <<[role |-> "user", content |-> chatText]>>

(* C32: every attempt of one chat invocation receives the same message
   sequence and the same options as the first attempt: neither the retry
   engine nor the provider's chat call modifies them between attempts. *)
C32_SameArgumentsEveryAttempt ==
    caller = "chat" =>
        /\ Len(received) = invocations
        /\ \A k \in 1..Len(received) :
              /\ received[k].messages = received[1].messages
              /\ received[k].options = received[1].options
              /\ payloads[k] = payloads[1]
        /\ received # <<>> => received[1].messages = BuiltMessages
        /\ messages = BuiltMessages

\* Three attempts of a chat with a system text: the third received the system
\* and user messages the first did.
C32_Witness ==
    /\ caller = "chat"
    /\ Len(received) = 3
    /\ options.system = Some(<<"be brief">>)
    /\ received[3].messages = <<[role |-> "system", content |-> <<"be brief">>],
                                [role |-> "user", content |-> <<"Hello">>]>>
    /\ payloads[3] = <<[role |-> "user", text |-> <<"be brief", "\n\n", "Hello">>]>>

\* The last marker of s when nothing closes it and it closes nothing: no marker
\* follows it and it is not the closing marker of a region (0: no such marker).
UnclosedMarker(s) ==
    IF Fences(s) = {} THEN 0
    ELSE LET p == Largest(Fences(s))
             rs == Regions(s, 1)
         IN  IF \E k \in 1..Len(rs) : rs[k].end = p THEN 0 ELSE p

ClosingTags == {"</thinking>", "</thought>", "[/thinking]"}

(* C38: a fenced region that is opened but never closed is not extracted as
   a code block and its text remains in content: when the last marker of the
   text has no closing marker, the code blocks are those of the closed regions
   before it, and content ends with the text from that marker on (trimmed).
   Stated for an unclosed region that holds no closing thinking tag, since a
   thinking region is removed from content wherever it is. *)
C38_UnclosedFenceKept ==
    (/\ parsed # None
     /\ UnclosedMarker(text) # 0
     /\ \A q \in UnclosedMarker(text)..Len(text) : text[q] \notin ClosingTags) =>
        LET p == UnclosedMarker(text)
            kept == Trim(SubSeq(text, p, Len(text)))
            c == parsed[1].content
        IN  /\ Len(parsed[1].codeBlocks) = Len(Regions(text, 1))
            /\ \A k \in 1..Len(Regions(text, 1)) : Regions(text, 1)[k].end < p
            /\ Len(c) >= Len(kept)
            /\ SubSeq(c, Len(c) - Len(kept) + 1, Len(c)) = kept

\* A closed block, then a marker with a tag and a line of code but no closing
\* marker: one block is extracted and the unclosed region stays in content.
C38_Witness ==
    /\ text = <<"FENCE", "\n", "x", "FENCE", "FENCE", "x", "\n", "x">>
    /\ parsed # None
    /\ parsed[1].codeBlocks = <<[language |-> <<"text">>, code |-> <<"x">>]>>
    /\ parsed[1].content = <<"FENCE", "x", "\n", "x">>

====
